---- MODULE Spec2Model ----
(***************************************************************************)
(* Order lifecycle correlation and execution engine of the arbitrage       *)
(* terminal: core.order_manager.OrderManager, the order rows it updates,    *)
(* the requests it hands to the connector and the events the venue session  *)
(* pushes back.                                                             *)
(*                                                                          *)
(* Python's None is NULL (-1) for integer-valued fields and "NONE" for       *)
(* string fields.  An execution price is an exact fraction [n, d]; the       *)
(* rounding of floats and of a NUMERIC(18,6) column is outside the model.    *)
(* The int and the str key that _register_trans_mapping and                  *)
(* _register_quik_mapping always write together are one key here; every      *)
(* handler normalises event ids with _to_int.                                *)
(***************************************************************************)
EXTENDS Integers, Sequences, FiniteSets, TLC

\* ------------------------------------------------------------------ bounds
MaxOrders == 2
MaxQty == 2
MaxPrice == 1
MaxTrans == 2
MaxEvents == 2
MaxCalls == 2
MaxRatio == 2
MaxLegs == 2
MaxLegPrice == 2
MaxLevel == 3
MaxLevels == 2
MaxSpread == 2
MaxTicks == 2
MaxPids == 2
MaxConfigs == 2
MaxOps == 2
MaxBoots == 2
MaxCrashes == 1
MaxQueue == 2
MaxCallbacks == 2
MaxUnits == 3

NULL == -1

LocalIds == 1..MaxOrders
TransIds == 1..(MaxTrans + 1)
VenueIds == 1..(MaxCalls + 2)
\* An order number / transaction id the venue reports for an order that was never
\* sent through this OrderManager (manual orders, other terminals).
ForeignVenue == MaxCalls + 2
ForeignTrans == MaxTrans + 1

Statuses == {"NEW", "ACTIVE", "PARTIAL", "FILLED", "CANCELLED", "REJECTED"}
Terminal == {"FILLED", "CANCELLED", "REJECTED"}
Boards == {"NONE", "TQBR", "SPBFUT"}

VARIABLES
    db,                \* orders table: local id -> row (db.models.Order)
    quik_to_orm,       \* OrderManager._quik_to_orm: venue order id -> local id
    orm_to_quik,       \* OrderManager._orm_to_quik: local id -> venue order id
    trans_to_orm,      \* OrderManager._trans_to_orm: transaction id -> local id
    orm_to_contract,   \* OrderManager._orm_to_contract: local id -> class code
    orm_to_order_key,  \* OrderManager._orm_to_order_key: local id -> ORDER_KEY
    call,              \* the place/cancel/modify coroutine running for each local id
    pair,              \* the send_pair_order coroutine
    sent,              \* requests handed to the connector, in dispatch order
    tasks,             \* update coroutines handed to _schedule, not yet finished
    lastFill,          \* per order: the last trade event whose update has committed
    ev,                \* the last event handed to an ingestion method: which method,
                       \* and whether none of its ids was in the store
    nEvents,           \* events ingested so far
    nCalls,            \* API calls started so far
    pairs_table,       \* one row of pairs_table (db.models.Pair)
    pair_orders,       \* the rows of the orders table that carry that pair's id
    pair_ran,          \* _update_pair_exec_price has been called for the pair
    pair_tasks,        \* the updates of the trade events for the pair's orders
    pair_reset,        \* the pair's orders as clear_pair_trades last found them
    cfg,               \* PairArbitrageStrategy.cfg (StrategyConfig)
    position_open,     \* PairArbitrageStrategy.position_open
    entry_side,        \* PairArbitrageStrategy.entry_side
    spreads,           \* spread_bid and spread_ask of the last poll tick, and the
                       \* entry level at which that tick entered a position
    nTicks,            \* poll ticks so far
    proc,              \* the backend process: down, booting, up or stopping
    portfolios,        \* PortfolioManager._portfolios: pid -> rec.config
    strategy,          \* per pid: the strategy object of its record, the task that
                       \* ran strategy.start() and the task of its loop
    lock,              \* PortfolioManager._lock: the call that holds it
    configs,           \* table portfolio_configs: pid -> config_json, active
    calls,             \* the supervisor calls of this process, in order of arrival
    stopped,           \* pids that stop_portfolio or stop() has stopped
    nOps,              \* supervisor calls requested so far
    nBoots,            \* process starts so far
    nCrashes,          \* strategy loops that have raised so far
    event_queue,       \* per connector class: the fill level of its _event_queue
    cb,                \* the last order, trade or transaction-reply callback of the
                       \* venue session: connector, kind and what became of it
    nCallbacks,        \* such callbacks so far
    send,              \* the last transaction a connector failed to send: what its
                       \* method returned and what became of its error event
    loop_state,        \* the engine's event loop: not started, running or closed
    loop_saved,        \* OrderManager._loop is the engine's loop (otherwise None)
    thread_pc,         \* the _schedule call running on the callback thread, if any
    units              \* the coroutines handed to _schedule, in order of the calls

\* The state of the OrderManager and of the orders it works on.
omVars == <<db, quik_to_orm, orm_to_quik, trans_to_orm, orm_to_contract,
            orm_to_order_key, call, pair, sent, tasks, lastFill, ev, nEvents, nCalls>>

\* The pair row and the orders of its legs.
pnlVars == <<pairs_table, pair_orders, pair_ran, pair_tasks, pair_reset>>

\* One PairArbitrageStrategy and the spreads its loop has seen.
stratVars == <<cfg, position_open, entry_side, spreads, nTicks>>

\* The PortfolioManager, its strategies and the stored configurations.
pmVars == <<proc, portfolios, strategy, lock, configs, calls, stopped, nOps, nBoots,
            nCrashes>>

\* The connectors' event queues and the callbacks of the venue session.
qcVars == <<event_queue, cb, nCallbacks, send>>

\* The engine's event loop and the units of work given to _schedule.
schedVars == <<loop_state, loop_saved, thread_pc, units>>

\* What no method of the OrderManager touches.
others == <<pnlVars, stratVars, pmVars, qcVars, schedVars>>

exceptPnl == <<omVars, stratVars, pmVars, qcVars, schedVars>>
exceptStrat == <<omVars, pnlVars, pmVars, qcVars, schedVars>>
exceptPm == <<omVars, pnlVars, stratVars, qcVars, schedVars>>
exceptOmQc == <<pnlVars, stratVars, pmVars, schedVars>>
exceptSched == <<omVars, pnlVars, stratVars, pmVars, qcVars>>

vars == <<omVars, others>>

maps == <<quik_to_orm, orm_to_quik, trans_to_orm, orm_to_contract, orm_to_order_key>>

\* ------------------------------------------------------------ arithmetic
Max(a, b) == IF a >= b THEN a ELSE b

RECURSIVE Gcd(_, _)
Gcd(a, b) == IF b = 0 THEN a ELSE Gcd(b, a % b)

\* A fraction in lowest terms (the value of a Python float, taken exactly).
Frac(n, d) == LET g == Gcd(n, d) IN [n |-> n \div g, d |-> d \div g]

\* `if order.exec_price` / `float(order.exec_price)`: None and 0 read as 0.0.
Truthy(p) == p.n # 0

\* ------------------------------------------------------------ order rows
\* The attributes the mapped class db.models.Order declares.  The migration adds
\* the columns pair_id and exec_price to the table, the class maps neither.
OrderColumns == {"id", "quik_num", "trans_id", "portfolio_id", "strategy_id",
                 "instrument_id", "side", "price", "qty", "filled", "leaves_qty",
                 "status", "created_at", "updated_at", "executed_at"}

\* A row as the callers create it: filled 0, status NEW, leaves_qty and quik_num
\* not set.  board is the board of the row's instrument, "NONE" when the
\* instrument row is missing.
NewOrder(tid, board, qty) ==
    [exists |-> TRUE, trans_id |-> tid, board |-> board, qty |-> qty, price |-> 0,
     filled |-> 0, leaves_qty |-> NULL, status |-> "NEW", quik_num |-> NULL]

NoOrder == [NewOrder(NULL, "NONE", 0) EXCEPT !.exists = FALSE]

\* session.commit(): the UPDATE carries the attributes whose value differs from
\* the one loaded; the other columns keep what the table holds now.
Commit(cur, snap, new) ==
    [f \in DOMAIN cur |-> IF new[f] # snap[f] THEN new[f] ELSE cur[f]]

\* get_next_trans_id: MAX(trans_id) over today's orders, plus one; 1 when none.
MaxTransId(d) ==
    LET S == {d[o].trans_id : o \in {x \in LocalIds : d[x].exists}} \cup {0}
    IN  CHOOSE m \in S : \A x \in S : x <= m

get_next_trans_id(d) == MaxTransId(d) + 1

\* --------------------------------------------------- updates of one row
\* _update_order_status: status only when given, filled only when given, and
\* leaves_qty recomputed only together with filled.
update_order_status(order, status, filled) ==
    LET o1 == IF status # "NONE" THEN [order EXCEPT !.status = status] ELSE order
    IN  IF filled # NULL
        THEN [o1 EXCEPT !.filled = filled, !.leaves_qty = Max(o1.qty - filled, 0)]
        ELSE o1

\* _update_order_status of backend.core.order_manager: the status is assigned
\* whether or not the event carries one.  The column is declared NOT NULL
\* (Mapped[OrderStatus]), so the commit of a row whose status is None raises and
\* the row is left as it was loaded.
backend_update_order_status(order, status, filled) ==
    IF status = "NONE" THEN order
    ELSE IF filled # NULL
    THEN [order EXCEPT !.status = status, !.filled = filled,
                       !.leaves_qty = Max(order.qty - filled, 0)]
    ELSE [order EXCEPT !.status = status]

\* _update_order_price as it would be if it wrote the price alone.
update_order_price_only(order, price, qty) == [order EXCEPT !.price = price]

\* _update_order_price: price always, qty when given; leaves_qty is not touched.
update_order_price(order, price, qty) ==
    IF qty # NULL THEN [order EXCEPT !.price = price, !.qty = qty]
    ELSE [order EXCEPT !.price = price]

\* _update_order_quik_num (strategy_id is not modelled).
update_order_quik_num(order, quik_num) == [order EXCEPT !.quik_num = quik_num]

\* The weighted average execution price of on_trade_event.update.
vwap(order, trade_qty, trade_price) ==
    LET prev_filled == order.filled
        prev == IF Truthy(order.exec_price) THEN order.exec_price ELSE [n |-> 0, d |-> 1]
    IN  IF trade_qty > 0 /\ trade_price > 0
        THEN IF prev_filled = 0
             THEN Frac(trade_price, 1)
             ELSE Frac(prev.n * prev_filled + trade_price * trade_qty * prev.d,
                       prev.d * (prev_filled + trade_qty))
        ELSE order.exec_price

\* on_trade_event.update reads order.exec_price when the fill has a positive
\* quantity and a positive price: an AttributeError unless the class maps it.
trade_raises(trade_qty, trade_price) ==
    trade_qty > 0 /\ trade_price > 0 /\ "exec_price" \notin OrderColumns

\* on_trade_event.update: filled, leaves_qty, exec_price and status of one fill.
\* When the read of exec_price raises, the handler's `except Exception` swallows
\* it before session.commit(): the row is left as it was loaded.
trade_update(order, trade_qty, trade_price) ==
    LET filled == order.filled + trade_qty
        o1 == [order EXCEPT !.filled = filled,
                            !.leaves_qty = Max(order.qty - filled, 0),
                            !.status = IF filled >= order.qty THEN "FILLED" ELSE "PARTIAL"]
    IN  IF trade_raises(trade_qty, trade_price) THEN order
        ELSE IF trade_qty > 0 /\ trade_price > 0
        THEN [o1 EXCEPT !.exec_price = vwap(order, trade_qty, trade_price)]
        ELSE o1

\* on_trans_reply_event.update: an error code or REJECTED rejects, CANCELLED cancels.
trans_reply_update(order, status, err) ==
    IF err \/ status = "REJECTED" THEN [order EXCEPT !.status = "REJECTED"]
    ELSE IF status = "CANCELLED" THEN [order EXCEPT !.status = "CANCELLED"]
    ELSE order

\* A scheduled update coroutine: what it will do, and the row it has loaded.
\* seen is the status the row had when the event was handed over.
Task(kind, o, status, filled, qty, price, err, ids) ==
    [kind |-> kind, o |-> o, status |-> status, filled |-> filled, qty |-> qty,
     price |-> price, err |-> err, ids |-> ids, pc |-> "new", snap |-> NoOrder,
     seen |-> db[o].status]

RunUpdate(t, order) ==
    CASE t.kind = "status" -> update_order_status(order, t.status, t.filled)
      [] t.kind = "backend_status" -> backend_update_order_status(order, t.status, t.filled)
      [] t.kind = "trade"  -> trade_update(order, t.qty, t.price)
      [] t.kind = "reply"  -> trans_reply_update(order, t.status, t.err)

\* ------------------------------------------------------ correlation store
Known(quik_num) == quik_num # NULL /\ quik_to_orm[quik_num] # NULL
KnownTrans(trans_id) == trans_id # NULL /\ trans_to_orm[trans_id] # NULL

\* None of the ids an event carries is in the store.
Miss(order_key, quik_num, trans_id) ==
    ~Known(order_key) /\ ~Known(quik_num) /\ ~KnownTrans(trans_id)

\* _register_trans_mapping, as the map it leaves (m is the map before).
register_trans_mapping(m, trans_id, orm_order_id) ==
    IF trans_id = NULL THEN m ELSE [m EXCEPT ![trans_id] = orm_order_id]

register_quik_mapping(quik_num, orm_order_id) ==
    /\ quik_to_orm' = [quik_to_orm EXCEPT ![quik_num] = orm_order_id]
    /\ orm_to_quik' = [orm_to_quik EXCEPT ![orm_order_id] = quik_num]

schedule(task) == tasks' = Append(tasks, task)

\* ------------------------------------------------------- event ingestion
\* on_order_event: ORDER_KEY, then order number, then transaction id; a new order
\* number found through the transaction id is bound.
on_order_event(order_key, quik_num, trans_id, status, filled) ==
    LET orm == IF Known(order_key) THEN quik_to_orm[order_key]
               ELSE IF Known(quik_num) THEN quik_to_orm[quik_num]
               ELSE IF KnownTrans(trans_id) THEN trans_to_orm[trans_id]
               ELSE NULL
        learn == ~Known(order_key) /\ ~Known(quik_num) /\ KnownTrans(trans_id)
                 /\ quik_num # NULL
    IN  /\ nEvents' = nEvents + 1
        /\ ev' = [kind |-> "order", miss |-> Miss(order_key, quik_num, trans_id)]
        /\ UNCHANGED <<db, trans_to_orm, orm_to_contract, call, pair, sent, lastFill, nCalls>>
        /\ IF orm = NULL
           THEN UNCHANGED <<quik_to_orm, orm_to_quik, orm_to_order_key, tasks>>
           ELSE /\ IF learn THEN register_quik_mapping(quik_num, orm)
                   ELSE UNCHANGED <<quik_to_orm, orm_to_quik>>
                /\ orm_to_order_key' =
                       IF order_key # NULL /\ orm_to_order_key[orm] = NULL
                       THEN [orm_to_order_key EXCEPT ![orm] = order_key]
                       ELSE orm_to_order_key
                /\ schedule(Task("status", orm, status, filled, 0, 0, FALSE,
                                 <<quik_num, trans_id>>))

\* on_order_event of backend.core.order_manager: order number, then transaction
\* id; no ORDER_KEY, account or client code is read.
backend_on_order_event(quik_num, trans_id, status, filled) ==
    LET orm == IF Known(quik_num) THEN quik_to_orm[quik_num]
               ELSE IF KnownTrans(trans_id) THEN trans_to_orm[trans_id]
               ELSE NULL
        learn == ~Known(quik_num) /\ KnownTrans(trans_id) /\ quik_num # NULL
    IN  /\ nEvents' = nEvents + 1
        /\ ev' = [kind |-> "order", miss |-> Miss(NULL, quik_num, trans_id)]
        /\ UNCHANGED <<db, trans_to_orm, orm_to_contract, orm_to_order_key, call, pair,
                       sent, lastFill, nCalls>>
        /\ IF orm = NULL THEN UNCHANGED <<quik_to_orm, orm_to_quik, tasks>>
           ELSE /\ IF learn THEN register_quik_mapping(quik_num, orm)
                   ELSE UNCHANGED <<quik_to_orm, orm_to_quik>>
                /\ schedule(Task("backend_status", orm, status, filled, 0, 0, FALSE,
                                 <<quik_num, trans_id>>))

\* on_trade_event as it would be if an event that resolves to no order were
\* applied to the first order instead of being dropped.
on_trade_event_first_order(quik_num, trans_id, qty, price) ==
    LET orm == IF Known(quik_num) THEN quik_to_orm[quik_num]
               ELSE IF KnownTrans(trans_id) THEN trans_to_orm[trans_id]
               ELSE 1
    IN  /\ nEvents' = nEvents + 1
        /\ ev' = [kind |-> "trade", miss |-> Miss(NULL, quik_num, trans_id)]
        /\ UNCHANGED <<db, maps, call, pair, sent, lastFill, nCalls>>
        /\ schedule(Task("trade", orm, "NONE", NULL, qty, price, FALSE,
                         <<quik_num, trans_id>>))

\* on_trade_event: order number, then transaction id; nothing is bound.
on_trade_event(quik_num, trans_id, qty, price) ==
    LET orm == IF Known(quik_num) THEN quik_to_orm[quik_num]
               ELSE IF KnownTrans(trans_id) THEN trans_to_orm[trans_id]
               ELSE NULL
    IN  /\ nEvents' = nEvents + 1
        /\ ev' = [kind |-> "trade", miss |-> Miss(NULL, quik_num, trans_id)]
        /\ UNCHANGED <<db, maps, call, pair, sent, lastFill, nCalls>>
        /\ IF orm = NULL THEN UNCHANGED tasks
           ELSE schedule(Task("trade", orm, "NONE", NULL, qty, price, FALSE,
                              <<quik_num, trans_id>>))

\* on_trans_reply_event: transaction id, then order number; a new order number
\* is bound to the order found.
on_trans_reply_event(quik_num, trans_id, status, err) ==
    LET orm == IF KnownTrans(trans_id) THEN trans_to_orm[trans_id]
               ELSE IF Known(quik_num) THEN quik_to_orm[quik_num]
               ELSE NULL
    IN  /\ nEvents' = nEvents + 1
        /\ ev' = [kind |-> "reply", miss |-> Miss(NULL, quik_num, trans_id)]
        /\ UNCHANGED <<db, trans_to_orm, orm_to_contract, orm_to_order_key, call, pair,
                       sent, lastFill, nCalls>>
        /\ IF orm = NULL THEN UNCHANGED <<quik_to_orm, orm_to_quik, tasks>>
           ELSE /\ IF quik_num # NULL /\ ~Known(quik_num)
                   THEN register_quik_mapping(quik_num, orm)
                   ELSE UNCHANGED <<quik_to_orm, orm_to_quik>>
                /\ schedule(Task("reply", orm, status, NULL, 0, 0, err,
                                 <<quik_num, trans_id>>))

\* ------------------------------------------------- scheduled update tasks
\* History of the fills of one order: whether a trade event had its update
\* run, the last one that had, and whether it repeats the one before it.
NoFill == [any |-> FALSE, ids |-> <<NULL, NULL>>, qty |-> 0, price |-> 0, dup |-> FALSE]

Fill(h, t) ==
    [any |-> TRUE, ids |-> t.ids, qty |-> t.qty, price |-> t.price,
     dup |-> h.any /\ h.ids = t.ids /\ h.qty = t.qty /\ h.price = t.price]

Remove(seq, i) == SubSeq(seq, 1, i - 1) \o SubSeq(seq, i + 1, Len(seq))

\* `order = await session.get(Order, orm_order_id)`
TaskLoad(i) ==
    /\ tasks[i].pc = "new"
    /\ tasks' = [tasks EXCEPT ![i].pc = "loaded", ![i].snap = db[tasks[i].o]]
    /\ UNCHANGED <<db, maps, call, pair, sent, lastFill, ev, nEvents, nCalls>>

\* the body of the update and `await session.commit()`
TaskCommit(i) ==
    LET t == tasks[i]
        new == RunUpdate(t, t.snap)
        row == Commit(db[t.o], t.snap, new)
    IN  /\ t.pc = "loaded"
        /\ db' = [db EXCEPT ![t.o] = row]
        /\ tasks' = Remove(tasks, i)
        /\ lastFill' = IF t.kind = "trade"
                       THEN [lastFill EXCEPT ![t.o] = Fill(lastFill[t.o], t)]
                       ELSE lastFill
        /\ UNCHANGED <<maps, call, pair, sent, ev, nEvents, nCalls>>

\* ------------------------------------------------------------- requests
\* The order number the venue gives the next NEW_ORDER it receives.
NextVenue == 1 + Cardinality({i \in 1..Len(sent) : sent[i].action = "NEW_ORDER"})

\* The connector call: the request leaves with what the transaction map holds for
\* its TRANS_ID at that moment (m is the map when the call is made).
dispatch(m, action, trans_id, orm_order_id, ref) ==
    sent' = Append(sent,
        [action |-> action, trans |-> trans_id, local |-> orm_order_id, ref |-> ref,
         v |-> IF action = "NEW_ORDER" THEN NextVenue ELSE NULL,
         mapped |-> IF trans_id = NULL THEN NULL ELSE m[trans_id]])

Idle == [op |-> "none", pc |-> "idle", trans |-> NULL, nprice |-> 0, nqty |-> NULL,
         cls |-> "NONE", v |-> NULL, ok |-> FALSE, snap |-> NoOrder, start |-> 0,
         quik0 |-> NULL, key0 |-> NULL, seen |-> "NONE", move_ok |-> FALSE]

Begin(o, op) == [Idle EXCEPT !.op = op, !.start = Len(sent), !.quik0 = orm_to_quik[o],
                             !.key0 = orm_to_order_key[o], !.seen = db[o].status]

CanStart(o) == call[o].op = "none" /\ db[o].exists /\ nCalls < MaxCalls

\* `order_key or quik_num`: what cancel and modify reference the order by.
OrderRef(o) == IF orm_to_order_key[o] # NULL THEN orm_to_order_key[o] ELSE orm_to_quik[o]

\* CLASSCODE of cancel/modify: the instrument's board, else the cached contract.
ClassCode(o) == IF db[o].board # "NONE" THEN db[o].board ELSE orm_to_contract[o]

\* MOVE_ORDERS is used unless the class code is empty or starts with 'TQ'.
use_move_orders(class_code) == class_code # "NONE" /\ class_code # "TQBR"

\* ---------------------------------------------------- place_limit_order
\* From entry to the connector call: TRANS_ID registered, contract cached, sent.
PlaceStart(o, c, m, trans_id, class_code) ==
    /\ trans_to_orm' = register_trans_mapping(m, trans_id, o)
    /\ orm_to_contract' = IF class_code # "NONE"
                          THEN [orm_to_contract EXCEPT ![o] = class_code]
                          ELSE orm_to_contract
    /\ dispatch(register_trans_mapping(m, trans_id, o), "NEW_ORDER", trans_id, o, NULL)
    /\ call' = [call EXCEPT ![o] = [c EXCEPT !.pc = "p_wait", !.trans = trans_id,
                                             !.v = NextVenue]]

\* place_limit_order(order_data, orm_order_id); tid = NULL: no TRANS_ID given.
PlaceBegin(o, tid, class_code) ==
    /\ CanStart(o)
    /\ nCalls' = nCalls + 1
    /\ PlaceStart(o, Begin(o, "place"), trans_to_orm,
                  IF tid = NULL THEN get_next_trans_id(db) ELSE tid, class_code)
    /\ UNCHANGED <<db, quik_to_orm, orm_to_quik, orm_to_order_key, pair, tasks,
                   lastFill, ev, nEvents>>

\* The row to load next once the placement is over: modify_order goes on to
\* _update_order_price, a plain placement returns.
AfterPlace(o, c, rows) ==
    IF c.op = "modify" THEN [c EXCEPT !.pc = "m_commit", !.snap = rows[o]]
    ELSE [c EXCEPT !.pc = "done"]

\* The connector's reply: with order_num the mapping is registered and the row
\* loaded for _update_order_quik_num; without it the call returns None.
PlaceResp(o, with_num) ==
    /\ call[o].pc = "p_wait"
    /\ IF with_num
       THEN /\ register_quik_mapping(call[o].v, o)
            /\ call' = [call EXCEPT ![o].pc = "p_commit", ![o].snap = db[o]]
       ELSE /\ UNCHANGED <<quik_to_orm, orm_to_quik>>
            /\ call' = [call EXCEPT ![o] = AfterPlace(o, call[o], db)]
    /\ UNCHANGED <<db, trans_to_orm, orm_to_contract, orm_to_order_key, pair, sent,
                   tasks, lastFill, ev, nEvents, nCalls>>

\* _update_order_quik_num commits.
PlaceCommit(o) ==
    LET c == call[o]
        row == Commit(db[o], c.snap, update_order_quik_num(c.snap, c.v))
    IN  /\ c.pc = "p_commit"
        /\ db' = [db EXCEPT ![o] = row]
        /\ call' = [call EXCEPT ![o] = AfterPlace(o, c, db')]
        /\ UNCHANGED <<maps, pair, sent, tasks, lastFill, ev, nEvents, nCalls>>

\* --------------------------------------------------------- cancel_order
\* From the class-code lookup to the connector call.  Without instrument and
\* without cached contract the order is cancelled by its reference alone, with
\* no TRANS_ID; otherwise a random TRANS_ID is registered first.
CancelStart(o, c, m, trans_id) ==
    /\ IF ClassCode(o) = "NONE"
       THEN /\ trans_to_orm' = m
            /\ dispatch(m, "KILL_ORDER", NULL, o, OrderRef(o))
            /\ call' = [call EXCEPT ![o] = [c EXCEPT !.pc = "c_wait", !.trans = NULL]]
       ELSE /\ trans_to_orm' = register_trans_mapping(m, trans_id, o)
            /\ dispatch(register_trans_mapping(m, trans_id, o), "KILL_ORDER",
                        trans_id, o, OrderRef(o))
            /\ call' = [call EXCEPT ![o] = [c EXCEPT !.pc = "c_wait", !.trans = trans_id]]

\* cancel_order as it would be without the early return: the request goes out
\* whether or not a reference is cached.
CancelBegin_unchecked(o, trans_id) ==
    /\ CanStart(o)
    /\ nCalls' = nCalls + 1
    /\ CancelStart(o, Begin(o, "cancel"), trans_to_orm, trans_id)
    /\ UNCHANGED <<db, quik_to_orm, orm_to_quik, orm_to_contract, orm_to_order_key,
                   pair, tasks, lastFill, ev, nEvents>>

\* cancel_order(orm_order_id): nothing happens without ORDER_KEY and order number.
CancelBegin(o, trans_id) ==
    /\ CanStart(o)
    /\ nCalls' = nCalls + 1
    /\ IF OrderRef(o) = NULL
       THEN /\ call' = [call EXCEPT ![o] = [Begin(o, "cancel") EXCEPT !.pc = "done"]]
            /\ UNCHANGED <<trans_to_orm, sent>>
       ELSE CancelStart(o, Begin(o, "cancel"), trans_to_orm, trans_id)
    /\ UNCHANGED <<db, quik_to_orm, orm_to_quik, orm_to_contract, orm_to_order_key,
                   pair, tasks, lastFill, ev, nEvents>>

\* What follows cancel_order if modify_order returned after its cancel.
AfterCancel_returns(c) == [c EXCEPT !.pc = "done"]

\* After cancel_order: modify_order goes on to the settle delay, a plain cancel
\* returns.
AfterCancel(c) ==
    IF c.op = "modify" THEN [c EXCEPT !.pc = "m_sleep"] ELSE [c EXCEPT !.pc = "done"]

\* The connector's reply to KILL_ORDER: CANCELLED is written when the reply says
\* the transaction was taken (data true), and always on the path without TRANS_ID.
CancelResp(o, accepted) ==
    LET c == call[o] IN
    /\ c.pc = "c_wait"
    /\ call' = [call EXCEPT ![o] =
                  IF accepted \/ c.trans = NULL
                  THEN [c EXCEPT !.pc = "c_commit", !.snap = db[o], !.ok = accepted]
                  ELSE AfterCancel([c EXCEPT !.ok = FALSE])]
    /\ UNCHANGED <<db, maps, pair, sent, tasks, lastFill, ev, nEvents, nCalls>>

\* _update_order_status(orm_order_id, CANCELLED) commits.
CancelCommit(o) ==
    LET c == call[o]
        row == Commit(db[o], c.snap, update_order_status(c.snap, "CANCELLED", NULL))
    IN  /\ c.pc = "c_commit"
        /\ db' = [db EXCEPT ![o] = row]
        /\ call' = [call EXCEPT ![o] = AfterCancel(c)]
        /\ UNCHANGED <<maps, pair, sent, tasks, lastFill, ev, nEvents, nCalls>>

\* --------------------------------------------------------- modify_order
\* modify_order(orm_order_id, new_price, new_qty): a random TRANS_ID is registered,
\* then MOVE_ORDERS is sent, or (class code 'TQ...') cancel_order is entered.
ModifyBegin(o, new_price, new_qty, trans_id, cancel_trans) ==
    LET c == [Begin(o, "modify") EXCEPT
                 !.nprice = new_price,
                 !.nqty = IF new_qty # NULL THEN new_qty ELSE db[o].qty,
                 !.cls = ClassCode(o)]
        m == register_trans_mapping(trans_to_orm, trans_id, o)
    IN  /\ CanStart(o)
        /\ nCalls' = nCalls + 1
        /\ IF OrderRef(o) = NULL \/ ClassCode(o) = "NONE"
           THEN /\ call' = [call EXCEPT ![o] = [c EXCEPT !.pc = "done"]]
                /\ UNCHANGED <<trans_to_orm, sent>>
           ELSE IF use_move_orders(ClassCode(o))
           THEN /\ trans_to_orm' = m
                /\ dispatch(m, "MOVE_ORDERS", trans_id, o, OrderRef(o))
                /\ call' = [call EXCEPT ![o] = [c EXCEPT !.pc = "m_wait", !.trans = trans_id]]
           ELSE CancelStart(o, c, m, cancel_trans)
        /\ UNCHANGED <<db, quik_to_orm, orm_to_quik, orm_to_contract, orm_to_order_key,
                       pair, tasks, lastFill, ev, nEvents>>

\* The reply to MOVE_ORDERS: accepted, the row is loaded for _update_order_price;
\* otherwise the cancel + new fallback starts with cancel_order.
ModifyResp(o, move_ok, cancel_trans) ==
    LET c == call[o] IN
    /\ c.pc = "m_wait"
    /\ IF move_ok
       THEN /\ call' = [call EXCEPT ![o] = [c EXCEPT !.pc = "m_commit", !.snap = db[o],
                                                     !.ok = TRUE, !.move_ok = TRUE]]
            /\ UNCHANGED <<trans_to_orm, sent>>
       ELSE CancelStart(o, c, trans_to_orm, cancel_trans)
    /\ UNCHANGED <<db, quik_to_orm, orm_to_quik, orm_to_contract, orm_to_order_key,
                   pair, tasks, lastFill, ev, nEvents, nCalls>>

\* After the settle delay: place_limit_order with a random TRANS_ID and the same
\* local id.
ModifyReplace(o, trans_id) ==
    /\ call[o].pc = "m_sleep"
    /\ PlaceStart(o, call[o], trans_to_orm, trans_id, call[o].cls)
    /\ UNCHANGED <<db, quik_to_orm, orm_to_quik, orm_to_order_key, pair, tasks,
                   lastFill, ev, nEvents, nCalls>>

\* _update_order_price(orm_order_id, new_price, qty_for_move) commits.
ModifyCommit(o) ==
    LET c == call[o]
        row == Commit(db[o], c.snap, update_order_price(c.snap, c.nprice, c.nqty))
    IN  /\ c.pc = "m_commit"
        /\ db' = [db EXCEPT ![o] = row]
        /\ call' = [call EXCEPT ![o].pc = "done"]
        /\ UNCHANGED <<maps, pair, sent, tasks, lastFill, ev, nEvents, nCalls>>

\* The coroutine returns to its caller.
CallReturn(o) ==
    /\ call[o].pc = "done"
    /\ call' = [call EXCEPT ![o] = Idle]
    /\ UNCHANGED <<db, maps, pair, sent, tasks, lastFill, ev, nEvents, nCalls>>

\* ------------------------------------------------------ send_pair_order
NoPair == [pc |-> "none", o1 |-> NULL, o2 |-> NULL, t1 |-> NULL, t2 |-> NULL]

NumOrders == Cardinality({o \in LocalIds : db[o].exists})

\* Order(pair_id=...) is a TypeError unless the class maps pair_id; the function's
\* `except Exception` returns (False, message), nothing is stored, registered or sent.
PairRaise ==
    /\ pair.pc = "none"
    /\ nCalls < MaxCalls
    /\ nCalls' = nCalls + 1
    /\ pair' = [NoPair EXCEPT !.pc = "second"]
    /\ UNCHANGED <<db, maps, call, sent, tasks, lastFill, ev, nEvents, others>>

\* Two order rows are created with trans1 = get_next_trans_id and trans2 = trans1 + 1,
\* both ids are registered, then the first market order is sent.
PairBegin(qty1, qty2, board1, board2) ==
    LET o1 == NumOrders + 1
        o2 == NumOrders + 2
        trans1 == get_next_trans_id(db)
        trans2 == trans1 + 1
        m == register_trans_mapping(register_trans_mapping(trans_to_orm, trans1, o1),
                                    trans2, o2)
    IN  /\ pair.pc = "none"
        /\ nCalls < MaxCalls
        /\ o2 <= MaxOrders
        /\ trans2 <= MaxTrans
        /\ nCalls' = nCalls + 1
        /\ db' = [db EXCEPT ![o1] = NewOrder(trans1, board1, qty1),
                            ![o2] = NewOrder(trans2, board2, qty2)]
        /\ trans_to_orm' = m
        /\ dispatch(m, "NEW_ORDER", trans1, o1, NULL)
        /\ pair' = [pc |-> "first", o1 |-> o1, o2 |-> o2, t1 |-> trans1, t2 |-> trans2]
        /\ UNCHANGED <<quik_to_orm, orm_to_quik, orm_to_contract, orm_to_order_key,
                       call, tasks, lastFill, ev, nEvents, others>>

send_pair_order(qty1, qty2, board1, board2) ==
    IF "pair_id" \in OrderColumns THEN PairBegin(qty1, qty2, board1, board2) ELSE PairRaise

\* The first reply is back: the second market order is sent.
PairSecond ==
    /\ pair.pc = "first"
    /\ dispatch(trans_to_orm, "NEW_ORDER", pair.t2, pair.o2, NULL)
    /\ pair' = [pair EXCEPT !.pc = "second"]
    /\ UNCHANGED <<db, maps, call, tasks, lastFill, ev, nEvents, nCalls, others>>

PairReturn ==
    /\ pair.pc = "second"
    /\ pair' = NoPair
    /\ UNCHANGED <<db, maps, call, sent, tasks, lastFill, ev, nEvents, nCalls, others>>

\* ---------------------------------------------------------------- venue
\* (order number, transaction id) pairs the venue session can put on an event:
\* those of a request it received, whole or in part, and those of foreign orders.
NewIds == UNION {{<<sent[i].v, sent[i].trans>>, <<sent[i].v, NULL>>, <<NULL, sent[i].trans>>} :
                 i \in {j \in 1..Len(sent) : sent[j].action = "NEW_ORDER"}}

ReplyIds == UNION {{<<sent[i].ref, sent[i].trans>>, <<NULL, sent[i].trans>>} :
                   i \in {j \in 1..Len(sent) : sent[j].action # "NEW_ORDER" /\ sent[j].trans # NULL}}

ForeignIds == {<<ForeignVenue, NULL>>, <<ForeignVenue, ForeignTrans>>}

\* ------------------------------------------------ _update_pair_exec_price
\* assets_table codes: an order's alias is the code of its instrument's ticker,
\* "NONE" when the ticker has no asset row; asset_1/asset_2 of a draft pair are NULL.
Aliases == {"NONE", "A", "B"}

\* A value n/d with d > 0, in lowest terms; NoValue is a NULL column.
Abs(n) == IF n < 0 THEN -n ELSE n

Ratio(n, d) == LET g == Gcd(Abs(n), d) IN [n |-> n \div g, d |-> d \div g]

NoValue == [n |-> 0, d |-> 0]

\* `float(pair.qty_ratio_1) if pair.qty_ratio_1 else 1.0`
ratio_or_one(r) == IF r # NULL /\ r # 0 THEN r ELSE 1

\* The SELECT: the pair's orders with filled > 0 and a non-NULL exec_price.
selected(orders) ==
    SelectSeq(orders, LAMBDA ord : ord.filled > 0 /\ ord.exec_price # NULL)

\* The loop over the selected orders: price * filled summed per leg (the division
\* by the leg's qty_ratio is the same for every term and is applied at the end),
\* and the filled quantity of leg 1.
RECURSIVE leg_sums(_, _, _)
leg_sums(orders, row, i) ==
    IF i = 0 THEN [sum_1 |-> 0, sum_2 |-> 0, exec_qty |-> 0]
    ELSE LET acc == leg_sums(orders, row, i - 1)
             ord == orders[i]
         IN  IF ord.exec_price = 0 \/ ord.filled = 0 THEN acc
             ELSE IF ord.alias = row.asset_1
             THEN [acc EXCEPT !.sum_1 = @ + ord.exec_price * ord.filled,
                              !.exec_qty = @ + ord.filled]
             ELSE IF ord.alias = row.asset_2
             THEN [acc EXCEPT !.sum_2 = @ + ord.exec_price * ord.filled]
             ELSE acc

\* pnl = sum_1 / qty_ratio_1 * price_ratio_1 - sum_2 / qty_ratio_2 * price_ratio_2
spread_pnl(sum_1, sum_2, row) ==
    LET qty_ratio_1 == ratio_or_one(row.qty_ratio_1)
        qty_ratio_2 == ratio_or_one(row.qty_ratio_2)
        price_ratio_1 == ratio_or_one(row.price_ratio_1)
        price_ratio_2 == ratio_or_one(row.price_ratio_2)
    IN  Ratio(sum_1 * price_ratio_1 * qty_ratio_2 - sum_2 * price_ratio_2 * qty_ratio_1,
              qty_ratio_1 * qty_ratio_2)

\* _update_pair_exec_price(session, order), as the pair row it leaves.  The first
\* statement reads order.pair_id and the SELECT names Order.pair_id and
\* Order.exec_price: an AttributeError unless the class maps both, and then
\* nothing is written.
update_pair_exec_price(row, orders) ==
    LET found == selected(orders)
        acc == leg_sums(found, row, Len(found))
    IN  IF ~({"pair_id", "exec_price"} \subseteq OrderColumns) THEN row
        ELSE IF found = <<>> THEN row
        ELSE [row EXCEPT !.exec_qty = acc.exec_qty,
                         !.exec_price = spread_pnl(acc.sum_1, acc.sum_2, row)]

NoPairRow == [asset_1 |-> "NONE", asset_2 |-> "NONE", qty_ratio_1 |-> NULL,
              qty_ratio_2 |-> NULL, price_ratio_1 |-> NULL, price_ratio_2 |-> NULL,
              exec_price |-> NoValue, exec_qty |-> NULL]

PairRows == {[NoPairRow EXCEPT !.asset_1 = a1, !.asset_2 = a2, !.qty_ratio_1 = q1,
                               !.qty_ratio_2 = q2, !.price_ratio_1 = p1,
                               !.price_ratio_2 = p2] :
                a1 \in Aliases, a2 \in Aliases, q1 \in 1..MaxRatio, q2 \in 1..MaxRatio,
                p1 \in 1..MaxRatio, p2 \in 1..MaxRatio}

LegOrders == [alias : Aliases, filled : 0..MaxQty, exec_price : {NULL} \cup (1..MaxLegPrice)]

PnlIdle ==
    /\ pairs_table = NoPairRow
    /\ pair_orders = <<>>
    /\ pair_ran = FALSE
    /\ pair_tasks = <<>>
    /\ pair_reset = <<>>

\* on_trade_event.update calls _update_pair_exec_price for the order it has stored.
PairUpdate ==
    /\ pair_orders # <<>>
    /\ ~pair_ran
    /\ pair_ran' = TRUE
    /\ pairs_table' = update_pair_exec_price(pairs_table, pair_orders)
    /\ UNCHANGED <<pair_orders, pair_tasks, pair_reset, exceptPnl>>

\* on_trade_event.update for an order of the pair.  A fill with a positive
\* quantity and price raises at the read of order.exec_price and stores nothing;
\* any other fill stores filled, and exec_price is written on no other branch.
leg_trade_update(order, trade_qty, trade_price) ==
    IF trade_raises(trade_qty, trade_price) THEN order
    ELSE [order EXCEPT !.filled = @ + trade_qty]

\* `after` records that the event arrived after clear_pair_trades.
PairTask(i, qty, price) ==
    [i |-> i, qty |-> qty, price |-> price, pc |-> "new",
     snap |-> [alias |-> "NONE", filled |-> 0, exec_price |-> NULL],
     after |-> pair_reset # <<>>]

\* on_trade_event resolves a trade event to order i of the pair and schedules
\* its update.
PairTradeEvent(i, qty, price) ==
    /\ i \in 1..Len(pair_orders)
    /\ Len(pair_tasks) < MaxEvents
    /\ pair_tasks' = Append(pair_tasks, PairTask(i, qty, price))
    /\ UNCHANGED <<pairs_table, pair_orders, pair_ran, pair_reset, exceptPnl>>

\* The update reads the order row.
PairTaskLoad(k) ==
    /\ pair_tasks[k].pc = "new"
    /\ pair_tasks' = [pair_tasks EXCEPT ![k].pc = "loaded",
                                        ![k].snap = pair_orders[pair_tasks[k].i]]
    /\ UNCHANGED <<pairs_table, pair_orders, pair_ran, pair_reset, exceptPnl>>

\* The update commits the order row and calls _update_pair_exec_price, which
\* reaches no await before its read of order.pair_id.
PairTaskStore(k) ==
    LET t == pair_tasks[k]
        row == Commit(pair_orders[t.i], t.snap, leg_trade_update(t.snap, t.qty, t.price))
        orders == [pair_orders EXCEPT ![t.i] = row]
    IN  /\ t.pc = "loaded"
        /\ pair_tasks' = [pair_tasks EXCEPT ![k].pc = "done"]
        /\ pair_orders' = orders
        /\ pairs_table' = IF trade_raises(t.qty, t.price) THEN pairs_table
                          ELSE update_pair_exec_price(pairs_table, orders)
        /\ UNCHANGED <<pair_ran, pair_reset, exceptPnl>>

\* clear_pair_trades (DELETE /api/pairs/{id}/trades): the pair's exec_price is
\* set to None and its exec_qty to 0; the orders table is not touched.
clear_pair_trades(row) == [row EXCEPT !.exec_price = NoValue, !.exec_qty = 0]

PairReset ==
    /\ pair_orders # <<>>
    /\ pair_reset = <<>>
    /\ pairs_table' = clear_pair_trades(pairs_table)
    /\ pair_reset' = pair_orders
    /\ UNCHANGED <<pair_orders, pair_ran, pair_tasks, exceptPnl>>

\* ------------------------------------------- PairArbitrageStrategy._loop
\* Spreads and levels are whole numbers of one price step.
Levels == 1..MaxLevel
Spreads == (0 - MaxSpread)..MaxSpread
NoSide == 0
NoLevel == NULL

RECURSIVE sorted(_)
sorted(s) ==
    IF s = <<>> THEN <<>>
    ELSE LET m == CHOOSE i \in 1..Len(s) : \A j \in 1..Len(s) : s[i] <= s[j]
         IN  <<s[m]>> \o sorted(SubSeq(s, 1, m - 1) \o SubSeq(s, m + 1, Len(s)))

NoEntry == [side |-> NoSide, level |-> NoLevel]

\* for level in sorted(entry_levels): the bid test comes first, the first test
\* that succeeds enters and breaks.
RECURSIVE entry_scan_descending(_, _, _, _)
entry_scan_descending(levels, i, spread_bid, spread_ask) ==
    LET k == Len(levels) + 1 - i
    IN  IF i > Len(levels) THEN NoEntry
        ELSE IF spread_bid >= levels[k] THEN [side |-> -1, level |-> levels[k]]
        ELSE IF spread_ask <= 0 - levels[k] THEN [side |-> 1, level |-> levels[k]]
        ELSE entry_scan_descending(levels, i + 1, spread_bid, spread_ask)

RECURSIVE entry_scan(_, _, _, _)
entry_scan(levels, i, spread_bid, spread_ask) ==
    IF i > Len(levels) THEN NoEntry
    ELSE IF spread_bid >= levels[i] THEN [side |-> -1, level |-> levels[i]]
    ELSE IF spread_ask <= 0 - levels[i] THEN [side |-> 1, level |-> levels[i]]
    ELSE entry_scan(levels, i + 1, spread_bid, spread_ask)

NoStrategy == [name |-> "NONE", entry_levels |-> <<>>, exit_level |-> 0]

StrategyConfigs ==
    {[name |-> "Pair", entry_levels |-> l, exit_level |-> x] :
        l \in UNION {[1..n -> Levels] : n \in 0..MaxLevels}, x \in 0..1}

StratIdle ==
    /\ cfg = NoStrategy
    /\ position_open = FALSE
    /\ entry_side = NoSide
    /\ spreads = [bid |-> 0, ask |-> 0, level |-> NoLevel]
    /\ nTicks = 0

\* PairArbitrageStrategy(config)
StratInit ==
    /\ cfg \in StrategyConfigs
    /\ position_open = FALSE
    /\ entry_side = NoSide
    /\ spreads = [bid |-> 0, ask |-> 0, level |-> NoLevel]
    /\ nTicks = 0

\* The loop as it would be if the exit tests looked at the other side's spread.
Tick_exit_swapped(spread_bid, spread_ask) ==
    /\ cfg # NoStrategy
    /\ nTicks < MaxTicks
    /\ nTicks' = nTicks + 1
    /\ IF ~position_open
       THEN LET e == entry_scan(sorted(cfg.entry_levels), 1, spread_bid, spread_ask)
            IN  /\ position_open' = (e # NoEntry)
                /\ entry_side' = e.side
                /\ spreads' = [bid |-> spread_bid, ask |-> spread_ask, level |-> e.level]
       ELSE LET exit == \/ entry_side = -1 /\ spread_bid >= 0 - cfg.exit_level
                        \/ entry_side = 1 /\ spread_ask <= cfg.exit_level
            IN  /\ position_open' = ~exit
                /\ entry_side' = IF exit THEN NoSide ELSE entry_side
                /\ spreads' = [bid |-> spread_bid, ask |-> spread_ask, level |-> NoLevel]
    /\ UNCHANGED <<cfg, exceptStrat>>

\* One pass of the while loop, from the quotes to the sleep: entry when no
\* position is open, exit otherwise.
Tick(spread_bid, spread_ask) ==
    /\ cfg # NoStrategy
    /\ nTicks < MaxTicks
    /\ nTicks' = nTicks + 1
    /\ IF ~position_open
       THEN LET e == entry_scan(sorted(cfg.entry_levels), 1, spread_bid, spread_ask)
            IN  /\ position_open' = (e # NoEntry)
                /\ entry_side' = e.side
                /\ spreads' = [bid |-> spread_bid, ask |-> spread_ask, level |-> e.level]
       ELSE LET exit == \/ entry_side = 1 /\ spread_bid >= 0 - cfg.exit_level
                        \/ entry_side = -1 /\ spread_ask <= cfg.exit_level
            IN  /\ position_open' = ~exit
                /\ entry_side' = IF exit THEN NoSide ELSE entry_side
                /\ spreads' = [bid |-> spread_bid, ask |-> spread_ask, level |-> NoLevel]
    /\ UNCHANGED <<cfg, exceptStrat>>

Ticks == \E spread_bid \in Spreads, spread_ask \in Spreads : Tick(spread_bid, spread_ask)

\* -------------------------------------------------------- PortfolioManager
\* One event loop runs every coroutine of the backend.  A step below runs a
\* coroutine from one real suspension (database I/O, a lock that is taken, a
\* task that has not finished, a sleep) to the next.  A task made with
\* create_task is in the ready queue before the I/O its creator then waits for
\* can complete, so a step that resumes after I/O waits for the pending
\* strategy.start() tasks (NoPendingStart).
Pids == 1..MaxPids
Configs == 1..MaxConfigs
NoConfig == 0
\* A pid the manager has never issued.
UnknownPid == 0
Free == 0

NoRow == [config |-> NoConfig, active |-> FALSE]
NoStrategyObject ==
    [config |-> NoConfig, running |-> FALSE, loop |-> "none", start |-> "none", cb |-> FALSE]
\* _build_strategy(config) and create_task(strategy.start()) with its done callback
NewStrategy(config) ==
    [config |-> config, running |-> FALSE, loop |-> "none", start |-> "pending", cb |-> FALSE]

Finished == {"done", "raised"}
NoPendingStart == \A p \in Pids : strategy[p].start # "pending"
rec_of(pid) == IF pid \in Pids THEN portfolios[pid] ELSE NoConfig
Issued == {p \in Pids : configs[p] # NoRow \/ portfolios[p] # NoConfig}
Adding == {c \in 1..Len(calls) : calls[c].op = "add" /\ calls[c].pc = "lock"}

MemoryIdle ==
    /\ portfolios = [p \in Pids |-> NoConfig]
    /\ strategy = [p \in Pids |-> NoStrategyObject]
    /\ lock = Free
    /\ calls = <<>>

MemoryLost ==
    /\ portfolios' = [p \in Pids |-> NoConfig]
    /\ strategy' = [p \in Pids |-> NoStrategyObject]
    /\ lock' = Free
    /\ calls' = <<>>

PmIdle ==
    /\ proc = "down"
    /\ MemoryIdle
    /\ configs = [p \in Pids |-> NoRow]
    /\ stopped = {}
    /\ nOps = 0
    /\ nBoots = MaxBoots
    /\ nCrashes = 0

\* A machine on which the backend has never run.
PmInit ==
    /\ proc = "down"
    /\ MemoryIdle
    /\ configs = [p \in Pids |-> NoRow]
    /\ stopped = {}
    /\ nOps = 0
    /\ nBoots = 0
    /\ nCrashes = 0

\* create_app and the startup handler: a new PortfolioManager, then start() up
\* to the close of its session: _start_portfolio_from_config for every active
\* row (the lock is free, nothing else runs yet).
Boot ==
    /\ proc = "down"
    /\ nBoots < MaxBoots
    /\ nBoots' = nBoots + 1
    /\ proc' = "booting"
    /\ portfolios' = [p \in Pids |-> IF configs[p].active THEN configs[p].config ELSE NoConfig]
    /\ strategy' = [p \in Pids |-> IF configs[p].active THEN NewStrategy(configs[p].config)
                                   ELSE NoStrategyObject]
    /\ UNCHANGED <<lock, configs, calls, stopped, nOps, nCrashes, exceptPm>>

\* start() returns and the API begins to serve.
BootDone ==
    /\ proc = "booting"
    /\ NoPendingStart
    /\ proc' = "up"
    /\ UNCHANGED <<portfolios, strategy, lock, configs, calls, stopped, nOps, nBoots,
                   nCrashes, exceptPm>>

\* BaseStrategy.start, run by the task the record keeps; when it finishes its
\* done callback is scheduled.
StartRun(pid) ==
    /\ strategy[pid].start = "pending"
    /\ strategy' = [strategy EXCEPT ![pid] =
           IF @.running THEN [@ EXCEPT !.start = "done", !.cb = TRUE]
           ELSE [@ EXCEPT !.running = TRUE, !.loop = "run", !.start = "done", !.cb = TRUE]]
    /\ UNCHANGED <<proc, portfolios, lock, configs, calls, stopped, nOps, nBoots,
                   nCrashes, exceptPm>>

\* task.exception() in _on_strategy_done: task is the one that ran
\* strategy.start(), whose body raises nothing.
start_task_raised(s) == FALSE

\* The done callback and _on_strategy_done(pid, config, task).
OnStrategyDone(pid) ==
    /\ strategy[pid].cb
    /\ IF start_task_raised(strategy[pid])
       THEN /\ lock = Free
            /\ portfolios' = [portfolios EXCEPT ![pid] = strategy[pid].config]
            /\ strategy' = [strategy EXCEPT ![pid] = NewStrategy(strategy[pid].config)]
       ELSE /\ strategy' = [strategy EXCEPT ![pid].cb = FALSE]
            /\ UNCHANGED portfolios
    /\ UNCHANGED <<proc, lock, configs, calls, stopped, nOps, nBoots, nCrashes, exceptPm>>

\* An iteration of _loop raises (entry levels or ratios of the stored
\* configuration that cannot be compared or multiplied): the loop task ends
\* with the exception, _running stays True.
LoopRaise(pid) ==
    /\ strategy[pid].loop = "run"
    /\ strategy[pid].running
    /\ nCrashes < MaxCrashes
    /\ nCrashes' = nCrashes + 1
    /\ strategy' = [strategy EXCEPT ![pid].loop = "raised"]
    /\ UNCHANGED <<proc, portfolios, lock, configs, calls, stopped, nOps, nBoots, exceptPm>>

\* The loop wakes from its sleep, finds _running False and returns.
LoopExit(pid) ==
    /\ strategy[pid].loop = "run"
    /\ ~strategy[pid].running
    /\ strategy' = [strategy EXCEPT ![pid].loop = "ended"]
    /\ UNCHANGED <<proc, portfolios, lock, configs, calls, stopped, nOps, nBoots,
                   nCrashes, exceptPm>>

\* An API request, or the shutdown handler, calls the manager.
Request(op, pid, config) ==
    /\ proc = "up"
    /\ nOps < MaxOps
    /\ nOps' = nOps + 1
    /\ calls' = Append(calls, [op |-> op, pid |-> pid, config |-> config, pc |-> "lock"])
    /\ proc' = IF op = "shutdown" THEN "stopping" ELSE proc
    /\ UNCHANGED <<portfolios, strategy, lock, configs, stopped, nBoots, nCrashes, exceptPm>>

AddRequest(config) ==
    /\ Cardinality(Issued) + Cardinality(Adding) < MaxPids
    /\ Request("add", UnknownPid, config)

StopRequest(pid) == Request("stop", pid, NoConfig)
UpdateRequest(pid, config) == Request("update", pid, config)
ListRequest == Request("list", UnknownPid, NoConfig)
ShutdownRequest == Request("shutdown", UnknownPid, NoConfig)

\* add_portfolio from the lock to the await of _save_config.
AddCreate(c) ==
    /\ calls[c].op = "add"
    /\ calls[c].pc = "lock"
    /\ lock = Free
    /\ LET pid == CHOOSE p \in Pids \ Issued : \A q \in Pids \ Issued : p <= q
       IN  /\ portfolios' = [portfolios EXCEPT ![pid] = calls[c].config]
           /\ strategy' = [strategy EXCEPT ![pid] = NewStrategy(calls[c].config)]
           /\ calls' = [calls EXCEPT ![c].pid = pid, ![c].pc = "save"]
    /\ lock' = c
    /\ UNCHANGED <<proc, configs, stopped, nOps, nBoots, nCrashes, exceptPm>>

\* _save_config commits the row (active by default); add_portfolio returns pid.
AddSave(c) ==
    /\ calls[c].op = "add"
    /\ calls[c].pc = "save"
    /\ NoPendingStart
    /\ configs' = [configs EXCEPT ![calls[c].pid] = [config |-> calls[c].config, active |-> TRUE]]
    /\ calls' = [calls EXCEPT ![c].pc = "done"]
    /\ lock' = Free
    /\ UNCHANGED <<proc, portfolios, strategy, stopped, nOps, nBoots, nCrashes, exceptPm>>

ListRun(c) ==
    /\ calls[c].op = "list"
    /\ calls[c].pc = "lock"
    /\ lock = Free
    /\ calls' = [calls EXCEPT ![c].pc = "done"]
    /\ UNCHANGED <<proc, portfolios, strategy, lock, configs, stopped, nOps, nBoots,
                   nCrashes, exceptPm>>

\* What list_portfolios returns under the lock: rec.strategy.is_running, which
\* is _running, for every pid of _portfolios.
list_portfolios ==
    [pid \in {p \in Pids : portfolios[p] # NoConfig} |-> strategy[pid].running]

\* BaseStrategy.stop awaits the task that ran start(), not the loop's.
stop_joins_start_task(s) == "join_start"

\* BaseStrategy.stop after _running = False: `if self._task: await self._task`,
\* and then `if not rec.task.done(): await rec.task` of _stop_portfolio_nolock.
\* A loop task that has raised raises again from the await; a strategy whose
\* start() has not run has no loop task yet.
stop_joins(s) ==
    IF s.loop = "raised" THEN "raised"
    ELSE IF s.loop = "none" THEN "join_start"
    ELSE "join"

\* _stop_portfolio_nolock(pid) for a pid that has a record, run by call c which
\* holds the lock, up to its first suspension.
stop_record(c, pid) ==
    LET j == stop_joins(strategy[pid])
    IN  /\ strategy' = [strategy EXCEPT ![pid].running = FALSE]
        /\ calls' = [calls EXCEPT ![c].pid = pid, ![c].pc = j]
        /\ lock' = IF j = "raised" THEN Free ELSE c

\* What call c does once _stop_portfolio_nolock has returned: stop_portfolio
\* returns; stop() goes on to the next pid; update_portfolio, still inside its
\* `async with self._lock`, awaits _start_portfolio_from_config, which begins
\* with `async with self._lock`.
after_stop(c) ==
    CASE calls[c].op = "stop" ->
            /\ calls' = [calls EXCEPT ![c].pc = "done"]
            /\ lock' = Free
            /\ UNCHANGED strategy
      [] calls[c].op = "update" ->
            /\ calls' = [calls EXCEPT ![c].pc = "blocked"]
            /\ lock' = c
            /\ UNCHANGED strategy
      [] calls[c].op = "shutdown" ->
            IF \E p \in Pids : portfolios[p] # NoConfig
            THEN stop_record(c, CHOOSE p \in Pids : /\ portfolios[p] # NoConfig
                                                    /\ \A q \in Pids : portfolios[q] # NoConfig => p <= q)
            ELSE /\ calls' = [calls EXCEPT ![c].pc = "done"]
                 /\ lock' = Free
                 /\ UNCHANGED strategy

\* stop_portfolio, update_portfolio and stop() from the lock to the first
\* suspension of _stop_portfolio_nolock.
StopRun(c) ==
    /\ calls[c].op \in {"stop", "update", "shutdown"}
    /\ calls[c].pc = "lock"
    /\ lock = Free
    /\ IF rec_of(calls[c].pid) = NoConfig THEN after_stop(c) ELSE stop_record(c, calls[c].pid)
    /\ UNCHANGED <<proc, portfolios, configs, stopped, nOps, nBoots, nCrashes, exceptPm>>

\* The awaited task has finished: del self._portfolios[pid], then the await of
\* _deactivate_config.
StopJoined(c) ==
    /\ calls[c].pc \in {"join", "join_start"}
    /\ IF calls[c].pc = "join" THEN strategy[calls[c].pid].loop # "run"
       ELSE strategy[calls[c].pid].start = "done"
    /\ portfolios' = [portfolios EXCEPT ![calls[c].pid] = NoConfig]
    /\ calls' = [calls EXCEPT ![c].pc = "deactivate"]
    /\ UNCHANGED <<proc, strategy, lock, configs, stopped, nOps, nBoots, nCrashes, exceptPm>>

\* _deactivate_config commits, _stop_portfolio_nolock returns.
StopDeactivate(c) ==
    /\ calls[c].pc = "deactivate"
    /\ NoPendingStart
    /\ configs' = [configs EXCEPT ![calls[c].pid] =
                      IF @ = NoRow THEN @ ELSE [@ EXCEPT !.active = FALSE]]
    /\ stopped' = IF calls[c].op \in {"stop", "shutdown"} THEN stopped \cup {calls[c].pid}
                  ELSE stopped
    /\ after_stop(c)
    /\ UNCHANGED <<proc, portfolios, nOps, nBoots, nCrashes, exceptPm>>

\* The shutdown handler is over and the process ends.
Exit ==
    /\ proc = "stopping"
    /\ \E c \in 1..Len(calls) : calls[c].op = "shutdown" /\ calls[c].pc \in Finished
    /\ proc' = "down"
    /\ MemoryLost
    /\ UNCHANGED <<configs, stopped, nOps, nBoots, nCrashes, exceptPm>>

\* The process is killed.
Kill ==
    /\ proc # "down"
    /\ nBoots < MaxBoots
    /\ proc' = "down"
    /\ MemoryLost
    /\ UNCHANGED <<configs, stopped, nOps, nBoots, nCrashes, exceptPm>>

\* The steps the event loop takes by itself.
LoopSteps ==
    \/ BootDone
    \/ \E pid \in Pids : StartRun(pid)
    \/ \E pid \in Pids : OnStrategyDone(pid)
    \/ \E pid \in Pids : LoopExit(pid)
    \/ \E c \in 1..Len(calls) : AddCreate(c)
    \/ \E c \in 1..Len(calls) : AddSave(c)
    \/ \E c \in 1..Len(calls) : ListRun(c)
    \/ \E c \in 1..Len(calls) : StopRun(c)
    \/ \E c \in 1..Len(calls) : StopJoined(c)
    \/ \E c \in 1..Len(calls) : StopDeactivate(c)
    \/ Exit

\* What the operator, the API clients and the strategies' inputs decide.
PmEnvironment ==
    \/ Boot
    \/ Kill
    \/ \E pid \in Pids : LoopRaise(pid)
    \/ \E config \in Configs : AddRequest(config)
    \/ \E pid \in Issued \cup {UnknownPid} : StopRequest(pid)
    \/ \E pid \in Issued \cup {UnknownPid}, config \in Configs : UpdateRequest(pid, config)
    \/ ListRequest
    \/ ShutdownRequest

\* ------------------------------------------------------------ _schedule
\* _schedule(coro) is called by the three event handlers, which run either on
\* the engine's event loop or on the venue session's callback thread.  A unit
\* records where it was handed over from (ctx), which branch took it (via),
\* whether it is pending, done or dropped, and how often its body has run.
SchedIdle ==
    /\ loop_state = "idle"
    /\ loop_saved = FALSE
    /\ thread_pc = "idle"
    /\ units = <<>>

Unit(ctx, via, state, runs) == [ctx |-> ctx, via |-> via, state |-> state, runs |-> runs]

\* The engine's loop starts running (uvicorn.run, asyncio.run).
LoopStart ==
    /\ loop_state = "idle"
    /\ loop_state' = "running"
    /\ UNCHANGED <<loop_saved, thread_pc, units, exceptSched>>

\* The engine's loop stops and is closed: what it has not run yet is cancelled
\* or never started.
LoopClose ==
    /\ loop_state = "running"
    /\ loop_state' = "closed"
    /\ units' = [i \in 1..Len(units) |->
                   IF units[i].state = "pending" THEN [units[i] EXCEPT !.state = "dropped"]
                   ELSE units[i]]
    /\ UNCHANGED <<loop_saved, thread_pc, exceptSched>>

\* OrderManager.__init__: asyncio.get_running_loop() is saved when the object
\* is made on the running loop; made anywhere else it saves None.
OrderManagerInit(in_loop) ==
    /\ in_loop => loop_state = "running"
    /\ thread_pc = "idle"
    /\ loop_saved' = in_loop
    /\ UNCHANGED <<loop_state, thread_pc, units, exceptSched>>

\* _schedule on the running loop: loop.create_task(coro).
ScheduleInLoop ==
    /\ loop_state = "running"
    /\ Len(units) < MaxUnits
    /\ units' = Append(units, Unit("loop", "task", "pending", 0))
    /\ UNCHANGED <<loop_state, loop_saved, thread_pc, exceptSched>>

\* _schedule on the callback thread: get_running_loop raises; with a saved loop
\* that is running the call goes on to run_coroutine_threadsafe, otherwise the
\* coroutine is run to completion on a new loop, which is then closed.
ScheduleOffLoop ==
    /\ thread_pc = "idle"
    /\ Len(units) < MaxUnits
    /\ IF loop_saved /\ loop_state = "running"
       THEN /\ thread_pc' = "checked"
            /\ UNCHANGED units
       ELSE /\ units' = Append(units, Unit("thread", "temp", "done", 1))
            /\ UNCHANGED thread_pc
    /\ UNCHANGED <<loop_state, loop_saved, exceptSched>>

\* asyncio.run_coroutine_threadsafe(coro, self._loop): the coroutine is queued
\* on the saved loop; a loop that has stopped in the meantime never runs it.
ScheduleThreadsafe ==
    /\ thread_pc = "checked"
    /\ thread_pc' = "idle"
    /\ units' = Append(units, Unit("thread", "threadsafe",
                                   IF loop_state = "running" THEN "pending" ELSE "dropped", 0))
    /\ UNCHANGED <<loop_state, loop_saved, exceptSched>>

\* The running loop runs one pending unit to completion.
LoopRun(i) ==
    /\ loop_state = "running"
    /\ units[i].state = "pending"
    /\ units' = [units EXCEPT ![i].state = "done", ![i].runs = @ + 1]
    /\ UNCHANGED <<loop_state, loop_saved, thread_pc, exceptSched>>

\* ------------------------------------------------------- QuikConnector
\* Two connector classes take the callbacks of the venue session, which the
\* session's client library calls on its own callback thread:
\* quik_connector.core.quik_connector ("core") and infra.quik.quik_connector
\* ("infra", the one core.order_manager imports).  Each has an
\* asyncio.Queue(maxsize=1000); MaxQueue stands for that size.
Connectors == {"core", "infra"}

QcIdle ==
    /\ event_queue = [c \in Connectors |-> 0]
    /\ cb = [conn |-> "none", kind |-> "none", out |-> "none"]
    /\ nCallbacks = 0
    /\ send = [conn |-> "none", action |-> "none", result |-> 0, event |-> "none"]

\* self._event_queue.put_nowait(event), QueueFull caught and logged.
put_nowait(conn) ==
    IF event_queue[conn] < MaxQueue
    THEN event_queue' = [event_queue EXCEPT ![conn] = @ + 1]
    ELSE UNCHANGED event_queue

\* A callback of the core connector: the payload goes straight to the ingestion
\* method of the OrderManager, which runs on the calling thread up to _schedule.
CoreCallback(kind) ==
    /\ nCallbacks < MaxCallbacks
    /\ nEvents < MaxEvents
    /\ nCallbacks' = nCallbacks + 1
    /\ cb' = [conn |-> "core", kind |-> kind, out |-> "handed"]
    /\ UNCHANGED <<event_queue, send, exceptOmQc>>

CoreOnTrade ==
    /\ CoreCallback("trade")
    /\ \E ids \in NewIds \cup ForeignIds : on_trade_event(ids[1], ids[2], 1, 0)

CoreOnOrder ==
    /\ CoreCallback("order")
    /\ \E ids \in NewIds \cup ForeignIds : \E key \in {NULL, ids[1]} :
          on_order_event(key, ids[1], ids[2], "ACTIVE", NULL)

CoreOnTransReply ==
    /\ CoreCallback("trans_reply")
    /\ \E ids \in NewIds \cup ForeignIds : on_trans_reply_event(ids[1], ids[2], "NONE", FALSE)

\* _on_trade and _on_trans_reply of the infra connector: the event is put on
\* the queue, or dropped when the queue is full; no OrderManager is called.
InfraCallback(kind) ==
    /\ nCallbacks < MaxCallbacks
    /\ nCallbacks' = nCallbacks + 1
    /\ cb' = [conn |-> "infra", kind |-> kind,
              out |-> IF event_queue["infra"] < MaxQueue THEN "queued" ELSE "dropped"]
    /\ put_nowait("infra")
    /\ UNCHANGED <<send, omVars, exceptOmQc>>

InfraOnTrade == InfraCallback("trade")

InfraOnTransReply == InfraCallback("trans_reply")

\* A quote: _quote_listener_loop of the core connector, _on_quote of the infra one.
Quote(conn) ==
    /\ put_nowait(conn)
    /\ UNCHANGED <<cb, nCallbacks, send, omVars, exceptOmQc>>

\* events() / events_nowait(): a reader takes one event.
EventsGet(conn) ==
    /\ event_queue[conn] > 0
    /\ event_queue' = [event_queue EXCEPT ![conn] = @ - 1]
    /\ UNCHANGED <<cb, nCallbacks, send, omVars, exceptOmQc>>

\* place_limit_order, cancel_order or modify_order of a connector when sending
\* the transaction raises.  The core connector catches the exception, puts an
\* event of type 'error' on its _event_queue (dropped when the queue is full)
\* and returns {"result": -1}; the infra connector's _send_transaction catches it
\* and returns {"result": -1} with no event.  Neither calls the OrderManager.
SendFails(conn, action) ==
    /\ send' = [conn |-> conn, action |-> action, result |-> -1,
                event |-> IF conn = "infra" THEN "none"
                          ELSE IF event_queue[conn] < MaxQueue THEN "queued"
                          ELSE "dropped"]
    /\ IF conn = "core" THEN put_nowait(conn) ELSE UNCHANGED event_queue
    /\ UNCHANGED <<cb, nCallbacks, omVars, exceptOmQc>>

SendFailures ==
    \/ \E a \in {"NEW_ORDER", "KILL_ORDER", "MOVE_ORDERS"} : SendFails("core", a)
    \/ \E a \in {"NEW_ORDER", "KILL_ORDER"} : SendFails("infra", a)

Quotes == \E conn \in Connectors : Quote(conn)
Reads == \E conn \in Connectors : EventsGet(conn)

\* ------------------------------------------------------------------ init
\* A new OrderManager, and the order rows 1..k its callers have created for the
\* instruments with boards b.
OrdersInit(k, b) ==
    /\ db = [o \in LocalIds |-> IF o <= k THEN NewOrder(NULL, b[o], MaxQty) ELSE NoOrder]
    /\ quik_to_orm = [v \in VenueIds |-> NULL]
    /\ orm_to_quik = [o \in LocalIds |-> NULL]
    /\ trans_to_orm = [t \in TransIds |-> NULL]
    /\ orm_to_contract = [o \in LocalIds |-> "NONE"]
    /\ orm_to_order_key = [o \in LocalIds |-> NULL]
    /\ call = [o \in LocalIds |-> Idle]
    /\ pair = NoPair
    /\ sent = <<>>
    /\ tasks = <<>>
    /\ lastFill = [o \in LocalIds |-> NoFill]
    /\ ev = [kind |-> "none", miss |-> FALSE]
    /\ nEvents = 0
    /\ nCalls = 0

InitWith(k, b) ==
    /\ OrdersInit(k, b)
    /\ PnlIdle
    /\ StratIdle
    /\ PmIdle
    /\ QcIdle
    /\ SchedIdle

Init == \E k \in 0..MaxOrders : \E b \in [1..k -> Boards] : InitWith(k, b)

\* ------------------------------------------------------------------ next
\* What the venue reports in an order event (status, filled), a trade event
\* (qty, price; 0 stands for an absent or zero field) and a transaction reply
\* (status, error code present).
OrderShapes == {<<"ACTIVE", NULL>>, <<"CANCELLED", NULL>>, <<"FILLED", MaxQty>>}
                   \cup {<<"NONE", f>> : f \in 1..MaxQty}
TradeShapes == (0..MaxQty) \X (0..MaxPrice)
ReplyShapes == {<<"NONE", FALSE>>, <<"NONE", TRUE>>, <<"REJECTED", FALSE>>,
                <<"CANCELLED", FALSE>>}

\* The venue session's callbacks: one event, with ids from Ids and a payload from Shapes.
OrderEvents(Ids, Shapes) ==
    /\ nEvents < MaxEvents
    /\ UNCHANGED others
    /\ \E ids \in Ids : \E sh \in Shapes : \E key \in {NULL, ids[1]} :
          on_order_event(key, ids[1], ids[2], sh[1], sh[2])

TradeEvents(Ids, Shapes) ==
    /\ nEvents < MaxEvents
    /\ UNCHANGED others
    /\ \E ids \in Ids : \E sh \in Shapes :
          on_trade_event(ids[1], ids[2], sh[1], sh[2])

TransReplyEvents(Ids, Shapes) ==
    /\ nEvents < MaxEvents
    /\ UNCHANGED others
    /\ \E ids \in Ids : \E sh \in Shapes :
          on_trans_reply_event(ids[1], ids[2], sh[1], sh[2])

BackendOrderEvents(Ids, Shapes) ==
    /\ nEvents < MaxEvents
    /\ UNCHANGED others
    /\ \E ids \in Ids : \E sh \in Shapes :
          backend_on_order_event(ids[1], ids[2], sh[1], sh[2])

OrderEvent == OrderEvents(NewIds \cup ForeignIds, OrderShapes)

BackendOrderEvent == BackendOrderEvents(NewIds \cup ForeignIds, OrderShapes)

TradeEvent == TradeEvents(NewIds \cup ForeignIds, TradeShapes)

TransReplyEvent == TransReplyEvents(NewIds \cup ReplyIds \cup ForeignIds, ReplyShapes)

\* The event loop runs one step of one scheduled update.
RunTask ==
    /\ UNCHANGED others
    /\ \E i \in 1..Len(tasks) : TaskLoad(i) \/ TaskCommit(i)

\* The callers of the OrderManager API, for the orders in S; T is the range of
\* the transaction ids a caller passes and random.randint draws.
PlaceCalls(S, T) == \E o \in S :
    \E tid \in {NULL} \cup T : \E c \in Boards :
          /\ (db[o].board # "NONE" => c = db[o].board)
          /\ PlaceBegin(o, tid, c)
          /\ UNCHANGED others

PlaceSteps(S) == \E o \in S :
    /\ UNCHANGED others
    /\ \/ \E n \in BOOLEAN : PlaceResp(o, n)
       \/ PlaceCommit(o)

Places(S, T) == PlaceCalls(S, T) \/ PlaceSteps(S)

Cancels(S, T) == \E o \in S :
    /\ UNCHANGED others
    /\ \/ \E t \in T : CancelBegin(o, t)
       \/ \E a \in BOOLEAN : CancelResp(o, a)
       \/ CancelCommit(o)

Modifies(S, T) == \E o \in S : \E t \in T :
    /\ UNCHANGED others
    /\ \/ \E p \in 1..MaxPrice : \E q \in {NULL} \cup (1..MaxQty) : \E t2 \in T :
             ModifyBegin(o, p, q, t, t2)
       \/ \E ok \in BOOLEAN : ModifyResp(o, ok, t)
       \/ ModifyReplace(o, t)
       \/ ModifyCommit(o)

Place == Places(LocalIds, 1..MaxTrans)

Cancel == Cancels(LocalIds, 1..MaxTrans)

Modify == Modifies(LocalIds, 1..MaxTrans)

Return == \E o \in LocalIds : CallReturn(o) /\ UNCHANGED others

PairOrder ==
    \/ \E q1, q2 \in 1..MaxQty : send_pair_order(q1, q2, "TQBR", "SPBFUT")
    \/ PairSecond
    \/ PairReturn

Next ==
    \/ OrderEvent
    \/ BackendOrderEvent
    \/ TradeEvent
    \/ TransReplyEvent
    \/ RunTask
    \/ Place
    \/ Cancel
    \/ Modify
    \/ Return
    \/ PairOrder
    \/ Ticks
    \/ LoopSteps
    \/ PmEnvironment
    \/ CoreOnTrade
    \/ CoreOnOrder
    \/ CoreOnTransReply
    \/ InfraOnTrade
    \/ InfraOnTransReply
    \/ Quotes
    \/ Reads

Spec == Init /\ [][Next]_vars

\* ------------------------------------------------------------- scenarios
\* One order row, on any board.
InitOne == \E b \in Boards : InitWith(1, [o \in {1} |-> b])

\* One placement and the fills of its order, one after another: the next trade
\* event is handed over when the update of the one before has finished.
FillsNext ==
    \/ sent = <<>> /\ PlaceCalls({1}, 1..MaxTrans)
    \/ PlaceSteps({1})
    \/ Return
    \/ tasks = <<>> /\ TradeEvents(NewIds, TradeShapes)
    \/ RunTask

SpecFills == InitOne /\ [][FillsNext]_vars

\* The life of one order: calls and events of every kind, the events carrying
\* both ids of the request they answer.
FullIds(R) == {<<sent[i].v, sent[i].trans>> : i \in {j \in 1..Len(sent) : sent[j].action \in R}}
                  \cup {<<sent[i].ref, sent[i].trans>> :
                           i \in {j \in 1..Len(sent) : sent[j].action \in R /\ sent[j].trans # NULL}}

LifeNext ==
    \/ sent = <<>> /\ PlaceCalls({1}, {1})
    \/ PlaceSteps({1})
    \/ Cancels({1}, {1})
    \/ Return
    \/ OrderEvents(FullIds({"NEW_ORDER"}), OrderShapes)
    \/ TradeEvents(FullIds({"NEW_ORDER"}), {<<1, 0>>, <<1, 1>>, <<MaxQty, 0>>})
    \/ TransReplyEvents(FullIds({"NEW_ORDER", "KILL_ORDER"}), ReplyShapes)
    \/ RunTask

SpecLife == InitOne /\ [][LifeNext]_vars

\* One placement, then modify_order, with the order events of the placement.
ModifyNext ==
    \/ sent = <<>> /\ PlaceCalls({1}, {1})
    \/ PlaceSteps({1})
    \/ Cancels({1}, {})
    \/ Modifies({1}, {1})
    \/ Return
    \/ OrderEvents(FullIds({"NEW_ORDER"}), {<<"ACTIVE", NULL>>, <<"NONE", 1>>})
    \/ RunTask

SpecModify == InitOne /\ [][ModifyNext]_vars

\* Correlation: two orders, calls of every kind for both, events with every
\* combination of ids and one payload per kind.  A scheduled update runs to its
\* end before the next call step or event.
InitTwo == InitWith(2, <<"TQBR", "SPBFUT">>)

CorrNext ==
    \/ tasks = <<>> /\ Places(LocalIds, {})
    \/ tasks = <<>> /\ Cancel
    \/ tasks = <<>> /\ Modify
    \/ tasks = <<>> /\ Return
    \/ tasks = <<>> /\ \E q1, q2 \in 1..MaxQty : send_pair_order(q1, q2, "TQBR", "SPBFUT")
    \/ tasks = <<>> /\ PairReturn
    \/ tasks = <<>> /\ OrderEvents(NewIds \cup ForeignIds, {<<"ACTIVE", NULL>>})
    \/ tasks = <<>> /\ TradeEvents(NewIds \cup ForeignIds, {<<1, 0>>})
    \/ tasks = <<>> /\ TransReplyEvents(NewIds \cup ReplyIds \cup ForeignIds, {<<"NONE", FALSE>>})
    \/ RunTask

SpecCorr == InitTwo /\ [][CorrNext]_vars

\* Events that hit and events that miss the store: one order is placed and
\* cancelled while events of every kind arrive with the ids of its requests, whole
\* or in part, or with foreign ids.
MissNext ==
    \/ tasks = <<>> /\ sent = <<>> /\ PlaceCalls({1}, {1})
    \/ tasks = <<>> /\ PlaceSteps({1})
    \/ tasks = <<>> /\ Cancels({1}, {MaxTrans})
    \/ tasks = <<>> /\ Return
    \/ tasks = <<>> /\ OrderEvents(NewIds \cup ForeignIds, {<<"ACTIVE", NULL>>})
    \/ tasks = <<>> /\ TradeEvents(NewIds \cup ForeignIds, {<<1, 0>>})
    \/ tasks = <<>> /\ TransReplyEvents(NewIds \cup ReplyIds \cup ForeignIds, {<<"NONE", FALSE>>})
    \/ RunTask

SpecMiss == InitOne /\ [][MissNext]_vars

\* The spread P&L of one pair: any pair row, any one or two order rows of the
\* pair in the orders table, and one call of _update_pair_exec_price.  (In
\* on_trade_event.update the call comes after a print that reads
\* order.exec_price: PnlNext takes the function by itself.)
InitPnl ==
    /\ OrdersInit(0, <<>>)
    /\ StratIdle
    /\ PmIdle
    /\ QcIdle
    /\ SchedIdle
    /\ pairs_table \in PairRows
    /\ pair_orders \in UNION {[1..n -> LegOrders] : n \in 1..MaxLegs}
    /\ pair_ran = FALSE
    /\ pair_tasks = <<>>
    /\ pair_reset = <<>>

PnlNext == PairUpdate

SpecPnl == InitPnl /\ [][PnlNext]_vars

\* Fills on a pair: a pair of assets A and B whose first order is of leg A
\* and whose other orders are of leg B, with any fills stored so far (a price
\* only together with a fill) and the pair's own figures not yet computed; trade events for either order, their
\* updates interleaved, and one reset of the pair.
PairFlowOrders ==
    {os \in UNION {[1..n -> LegOrders] : n \in 1..MaxLegs} :
        \A i \in 1..Len(os) : /\ os[i].alias = (IF i = 1 THEN "A" ELSE "B")
                               /\ os[i].exec_price # NULL => os[i].filled > 0}

InitPairFlow ==
    /\ OrdersInit(0, <<>>)
    /\ StratIdle
    /\ PmIdle
    /\ QcIdle
    /\ SchedIdle
    /\ pairs_table \in {r \in PairRows : /\ r.asset_1 = "A" /\ r.asset_2 = "B"
                                         /\ r.qty_ratio_2 = 1 /\ r.price_ratio_2 = 1}
    /\ pair_orders \in PairFlowOrders
    /\ pair_ran = FALSE
    /\ pair_tasks = <<>>
    /\ pair_reset = <<>>

PairFlowNext ==
    \/ \E i \in 1..MaxLegs : \E p \in 0..1 : PairTradeEvent(i, 1, p)
    \/ \E k \in 1..Len(pair_tasks) : PairTaskLoad(k)
    \/ \E k \in 1..Len(pair_tasks) : PairTaskStore(k)
    \/ PairReset

SpecPairFlow == InitPairFlow /\ [][PairFlowNext]_vars

\* One strategy with any configured entry levels, and its poll ticks.
InitEntry ==
    /\ OrdersInit(0, <<>>)
    /\ PnlIdle
    /\ StratInit
    /\ PmIdle
    /\ QcIdle
    /\ SchedIdle

EntryNext == Ticks

SpecEntry == InitEntry /\ [][EntryNext]_vars

\* The supervisor on a new machine: process starts, kills and shutdowns, API
\* calls, loops that raise.
InitPm ==
    /\ OrdersInit(0, <<>>)
    /\ PnlIdle
    /\ StratIdle
    /\ PmInit
    /\ QcIdle
    /\ SchedIdle

PmNext == LoopSteps \/ PmEnvironment

SpecPm == InitPm /\ [][PmNext]_vars

\* The event loop does not stop while a coroutine is ready to run; nothing
\* obliges a client to call, a loop to raise or the process to restart.
SpecPmFair == SpecPm /\ WF_vars(LoopSteps)

\* The venue session's callbacks while one order is placed: both connectors,
\* their queues filling with quotes and drained by a reader, and the event
\* loop running the scheduled updates.
InitBridge == InitWith(1, <<"TQBR">>)

BridgeNext ==
    \/ tasks = <<>> /\ sent = <<>> /\ PlaceCalls({1}, {1})
    \/ tasks = <<>> /\ PlaceSteps({1})
    \/ tasks = <<>> /\ Return
    \/ RunTask
    \/ CoreOnTrade
    \/ CoreOnOrder
    \/ CoreOnTransReply
    \/ InfraOnTrade
    \/ InfraOnTransReply
    \/ Quotes
    \/ Reads
    \/ SendFailures

SpecBridge == InitBridge /\ [][BridgeNext]_vars

\* Order events applied one at a time to one placed order, by either copy of
\* the OrderManager.
StatusNext ==
    \/ tasks = <<>> /\ sent = <<>> /\ PlaceCalls({1}, {1})
    \/ tasks = <<>> /\ PlaceSteps({1})
    \/ tasks = <<>> /\ Return
    \/ tasks = <<>> /\ OrderEvents(NewIds, OrderShapes)
    \/ tasks = <<>> /\ BackendOrderEvents(NewIds, OrderShapes)
    \/ RunTask

SpecStatus == InitOne /\ [][StatusNext]_vars

\* The scheduling primitive alone: the engine's loop starts and stops, the
\* OrderManager is made on it or off it, and units are handed to _schedule from
\* the loop and from the callback thread.
InitSched == InitWith(0, <<>>)

SchedNext ==
    \/ LoopStart
    \/ LoopClose
    \/ \E in_loop \in BOOLEAN : OrderManagerInit(in_loop)
    \/ ScheduleInLoop
    \/ ScheduleOffLoop
    \/ ScheduleThreadsafe
    \/ \E i \in 1..Len(units) : LoopRun(i)

SpecSched == InitSched /\ [][SchedNext]_vars

\* Placements without a TRANS_ID of their own: two orders, each placed any
\* number of times, one call after the other or both at once, every TRANS_ID
\* taken from get_next_trans_id.
TransNext ==
    \/ PlaceCalls(LocalIds, {})
    \/ PlaceSteps(LocalIds)
    \/ Return

SpecTrans == InitTwo /\ [][TransNext]_vars

\* One placement and one fill of the whole order, which the venue reports twice:
\* as an order event with the cumulative filled value and as a trade event with
\* the fill's quantity, in either order, with ids the store resolves.
ResolvedIds == {ids \in NewIds : Known(ids[1]) \/ KnownTrans(ids[2])}

ReportNext ==
    \/ sent = <<>> /\ PlaceCalls({1}, {1})
    \/ PlaceSteps({1})
    \/ Return
    \/ /\ nEvents = 0 \/ ev.kind = "trade"
       /\ OrderEvents(ResolvedIds, {<<"NONE", MaxQty>>, <<"FILLED", MaxQty>>})
    \/ /\ nEvents = 0 \/ ev.kind = "order"
       /\ TradeEvents(ResolvedIds, {<<MaxQty, 0>>, <<MaxQty, 1>>})
    \/ RunTask

SpecReport == InitOne /\ [][ReportNext]_vars

\* Acknowledgements of one order's requests: the order is placed and cancelled,
\* each call step taken while no update is pending; order events and transaction
\* replies arrive at any time and their updates interleave.
ReplyNext ==
    \/ tasks = <<>> /\ sent = <<>> /\ PlaceCalls({1}, {1})
    \/ tasks = <<>> /\ PlaceSteps({1})
    \/ tasks = <<>> /\ Cancels({1}, {MaxTrans})
    \/ tasks = <<>> /\ Return
    \/ OrderEvents(FullIds({"NEW_ORDER"}), {<<"ACTIVE", NULL>>})
    \/ TransReplyEvents(FullIds({"NEW_ORDER", "KILL_ORDER"}), ReplyShapes)
    \/ RunTask

SpecReply == InitOne /\ [][ReplyNext]_vars

\* --------------------------------------------------------------- claims
\* The step in which the update of trade event tasks[i] finishes.
FillDone(i) ==
    /\ i \in 1..Len(tasks)
    /\ tasks[i].kind = "trade"
    /\ tasks[i].pc = "loaded"
    /\ tasks' = Remove(tasks, i)

\* The execution price a row holds: 0/0 when the row has none.
ExecPrice(row) ==
    IF "exec_price" \in DOMAIN row THEN row.exec_price ELSE [n |-> 0, d |-> 0]

\* exec' = (exec * filled + price * qty) / filled', and the fill's price on the first fill.
IsVwap(before, after, qty, price) ==
    LET a == ExecPrice(before)
        b == ExecPrice(after)
    IN  /\ b.d # 0
        /\ IF before.filled = 0
           THEN b.n = price * b.d
           ELSE /\ a.d # 0
                /\ b.n * a.d * after.filled = (a.n * before.filled + price * qty * a.d) * b.d

\* C1: every trade event with a quantity and a price that is applied to an order,
\* one after another, adds its quantity to filled and moves exec_price to the
\* volume-weighted average of the fills applied so far (the fill's own price on
\* the first fill).
C1_FillRecurrence ==
    [][\A i \in 1..Len(tasks) :
          (FillDone(i) /\ tasks[i].qty > 0 /\ tasks[i].price > 0) =>
          LET o == tasks[i].o IN
          /\ db'[o].filled = db[o].filled + tasks[i].qty
          /\ IsVwap(db[o], db'[o], tasks[i].qty, tasks[i].price)]_vars

\* C5: a trade event that repeats the one applied just before it (same ids, same
\* quantity, same price) leaves filled, leaves_qty and the execution price as
\* the first application left them.
C5_ReplayIsNoOp ==
    [][\A i \in 1..Len(tasks) : (FillDone(i) /\ lastFill'[tasks[i].o].dup) =>
          LET o == tasks[i].o IN
          /\ db'[o].filled = db[o].filled
          /\ db'[o].leaves_qty = db[o].leaves_qty
          /\ ExecPrice(db'[o]) = ExecPrice(db[o])]_vars

\* C2: every order whose status is neither CANCELLED nor REJECTED, and whose
\* leaves_qty has been set, has filled + leaves_qty = qty.
C2_FilledPlusLeaves ==
    \A o \in LocalIds :
        (db[o].exists /\ db[o].status \notin {"CANCELLED", "REJECTED"}
            /\ db[o].leaves_qty # NULL)
        => db[o].filled + db[o].leaves_qty = db[o].qty

\* The step in which update tasks[i] finishes.
TaskDone(i) == i \in 1..Len(tasks) /\ tasks[i].pc = "loaded" /\ tasks' = Remove(tasks, i)

\* The step in which a cancel_order or modify_order call for o stores its update.
CallStores(o) ==
    /\ call[o].op \in {"cancel", "modify"}
    /\ call[o].pc \in {"c_commit", "m_commit"}
    /\ call'[o].pc # call[o].pc

\* C3: once an order is FILLED, CANCELLED or REJECTED, no event handed over
\* afterwards and no cancel_order or modify_order call started afterwards
\* changes its status.
C3_TerminalSticky ==
    [][/\ \A i \in 1..Len(tasks) :
             (TaskDone(i) /\ tasks[i].seen \in Terminal /\ db[tasks[i].o].status \in Terminal)
             => db'[tasks[i].o].status = db[tasks[i].o].status
       /\ \A o \in LocalIds :
             (CallStores(o) /\ call[o].seen \in Terminal /\ db[o].status \in Terminal)
             => db'[o].status = db[o].status]_vars

\* C4: once an order is CANCELLED or REJECTED, no trade event or order event
\* handed over afterwards changes its filled or its leaves_qty.
C4_FrozenAfterCancel ==
    [][\A i \in 1..Len(tasks) :
          (TaskDone(i) /\ tasks[i].kind \in {"trade", "status"}
              /\ tasks[i].seen \in {"CANCELLED", "REJECTED"}
              /\ db[tasks[i].o].status \in {"CANCELLED", "REJECTED"})
          => /\ db'[tasks[i].o].filled = db[tasks[i].o].filled
             /\ db'[tasks[i].o].leaves_qty = db[tasks[i].o].leaves_qty]_vars

\* A cancel_order call for o that the venue accepted has finished, and the venue
\* order id it used had come with an acknowledgement (the placement's own reply
\* carried none, so the row holds no quik_num).
CancelledAfterAck(o) ==
    /\ call[o].op = "cancel"
    /\ call[o].pc = "done"
    /\ call[o].ok
    /\ call[o].quik0 # NULL
    /\ db[o].quik_num = NULL

\* C6: after a placement, an acknowledgement carrying the venue order id and an
\* accepted cancel_order, the order is CANCELLED with leaves_qty = qty - filled,
\* and stays so whatever events follow.
C6_CancelRoundTrip ==
    \A o \in LocalIds :
        CancelledAfterAck(o) =>
            /\ db[o].status = "CANCELLED"
            /\ db[o].leaves_qty = db[o].qty - db[o].filled

\* The requests modify_order has dispatched for o since it started.
SentBy(o) == SelectSeq(SubSeq(sent, call[o].start + 1, Len(sent)), LAMBDA r : r.local = o)

\* C7: a modify_order call for an order on a TQ board that has a venue order id
\* has, when it returns, sent exactly one cancel and after it exactly one
\* placement for the same local id, no amend, and the local id maps to another
\* venue order id than before the call.
C7_ModifyFallback ==
    \A o \in LocalIds :
        (call[o].op = "modify" /\ call[o].pc = "done" /\ call[o].cls = "TQBR"
            /\ call[o].quik0 # NULL)
        => /\ Len(SentBy(o)) = 2
           /\ SentBy(o)[1].action = "KILL_ORDER"
           /\ SentBy(o)[2].action = "NEW_ORDER"
           /\ orm_to_quik[o] # call[o].quik0

\* C8: when none of the ids of an event is in the store (its venue order id and
\* ORDER_KEY unknown, its transaction id absent or unknown), the ingestion method
\* returns having scheduled no update and changed no order row and no
\* correlation map.
C8_MissChangesNothing ==
    [][(nEvents' = nEvents + 1 /\ ev'.miss) => UNCHANGED <<db, maps, tasks>>]_vars

\* An event whose ids are foreign to the store was handed to on_trans_reply_event
\* while the store held ids of a placed order.
C8_MissSeen ==
    /\ ev.kind = "reply"
    /\ ev.miss
    /\ \E t \in TransIds : trans_to_orm[t] # NULL
    /\ \E v \in VenueIds : quik_to_orm[v] # NULL

\* C9: the transaction id of every request that place_limit_order, cancel_order,
\* modify_order and send_pair_order hand to the connector is mapped to the
\* request's local id when the connector is called, and an acknowledgement
\* carrying it resolves to that local id at any time afterwards.
C9_AckResolves ==
    \A i \in 1..Len(sent) :
        sent[i].trans # NULL =>
            /\ sent[i].mapped = sent[i].local
            /\ trans_to_orm[sent[i].trans] = sent[i].local

\* C10: a venue order id bound to a local id is never bound to another local id.
C10_NoRebind ==
    [][\A v \in VenueIds :
          quik_to_orm[v] # NULL => quik_to_orm'[v] = quik_to_orm[v]]_vars

\* The step in which a handler resolved an event and scheduled its update; the
\* update is then the last scheduled task, which carries the event's ids.
Resolved ==
    /\ nEvents' = nEvents + 1
    /\ Len(tasks') = Len(tasks) + 1

Scheduled == tasks'[Len(tasks')]

\* C11: an event whose venue order id is mapped to local id A and whose
\* transaction id is mapped to another local id B is applied to A, in
\* on_order_event, on_trade_event and on_trans_reply_event alike.
C11_VenueIdFirst ==
    [][Resolved =>
          LET v == Scheduled.ids[1]
              t == Scheduled.ids[2]
          IN  (Known(v) /\ KnownTrans(t) /\ quik_to_orm[v] # trans_to_orm[t])
                  => Scheduled.o = quik_to_orm[v]]_vars

\* C12: an event whose venue order id is not in the store and whose transaction
\* id is mapped to local id L is applied to L and binds the venue order id to L,
\* in on_order_event, on_trade_event and on_trans_reply_event alike.
C12_LearnsVenueId ==
    [][Resolved =>
          LET v == Scheduled.ids[1]
              t == Scheduled.ids[2]
          IN  (v # NULL /\ ~Known(v) /\ KnownTrans(t))
                  => /\ Scheduled.o = trans_to_orm[t]
                     /\ quik_to_orm'[v] = trans_to_orm[t]]_vars

\* price * filled summed over the orders whose alias is a, and their filled volume.
RECURSIVE LegCost(_, _, _)
LegCost(orders, a, i) ==
    IF i = 0 THEN 0
    ELSE LegCost(orders, a, i - 1)
         + (IF orders[i].alias = a /\ orders[i].exec_price # NULL
            THEN orders[i].exec_price * orders[i].filled ELSE 0)

RECURSIVE LegQty(_, _, _)
LegQty(orders, a, i) ==
    IF i = 0 THEN 0
    ELSE LegQty(orders, a, i - 1) + (IF orders[i].alias = a THEN orders[i].filled ELSE 0)

\* C13: after _update_pair_exec_price has run for a pair, pair.exec_price is
\* (sum over leg-1 orders of exec_price*filled/qty_ratio_1)*price_ratio_1 minus
\* (sum over leg-2 orders of exec_price*filled/qty_ratio_2)*price_ratio_2 and
\* pair.exec_qty is the filled volume of the leg-1 orders, an order belonging to
\* a leg when its alias is the leg's alias.  Taken for a pair of assets A and B with
\* an order of leg A, whose orders all have a fill with a price.
PairFilled ==
    /\ pairs_table.asset_1 = "A"
    /\ pairs_table.asset_2 = "B"
    /\ \E i \in 1..Len(pair_orders) : pair_orders[i].alias = "A"
    /\ \A i \in 1..Len(pair_orders) :
          pair_orders[i].filled > 0 /\ pair_orders[i].exec_price # NULL

C13_PairPnl ==
    (pair_ran /\ PairFilled) =>
        LET n == Len(pair_orders)
            row == pairs_table
        IN  /\ row.exec_price =
                  Ratio(LegCost(pair_orders, row.asset_1, n) * row.price_ratio_1 * row.qty_ratio_2
                          - LegCost(pair_orders, row.asset_2, n) * row.price_ratio_2 * row.qty_ratio_1,
                        row.qty_ratio_1 * row.qty_ratio_2)
            /\ row.exec_qty = LegQty(pair_orders, row.asset_1, n)

\* A poll tick that found no position open.
FlatTick == ~position_open /\ nTicks' = nTicks + 1

\* The entry levels the spreads of the tick just taken have crossed.
Crossed ==
    {cfg.entry_levels[i] : i \in {j \in 1..Len(cfg.entry_levels) :
        \/ spreads'.bid >= cfg.entry_levels[j]
        \/ spreads'.ask <= 0 - cfg.entry_levels[j]}}

\* C14: a poll tick in FLAT enters at the lowest entry level that spread_bid
\* (>= level, side -1) or spread_ask (<= -level, side 1) has crossed, and at no
\* higher one; when no level is crossed the strategy stays flat.
C14_EntryAtFirstLevel ==
    [][FlatTick =>
        IF Crossed = {}
        THEN ~position_open' /\ entry_side' = NoSide
        ELSE LET L == CHOOSE l \in Crossed : \A m \in Crossed : l <= m
             IN  /\ position_open'
                 /\ spreads'.level = L
                 /\ entry_side' \in {-1, 1}
                 /\ entry_side' = -1 => spreads'.bid >= L
                 /\ entry_side' = 1 => spreads'.ask <= 0 - L
                 /\ spreads'.bid >= L => entry_side' = -1]_vars

\* Levels [1, 3] and a spread_bid of 2: short the spread on level 1.
C14_EnteredShortOnFirst ==
    /\ cfg.entry_levels = <<1, 3>>
    /\ nTicks = 1
    /\ spreads.bid = 2
    /\ position_open
    /\ entry_side = -1
    /\ spreads.level = 1

\* An update_portfolio call waits for the lock it holds.
SomeBlocked == \E c \in 1..Len(calls) : calls[c].pc = "blocked"

\* C15: a strategy loop that has ended with an exception is followed by a new
\* instance under the same pid (a new strategy with the same configuration
\* whose start() is about to run), unless the process ends first or the
\* manager's lock is never released again.
C15_RestartAfterCrash ==
    \A p \in Pids : \A k \in Configs :
        (strategy[p].loop = "raised" /\ strategy[p].config = k)
            ~> \/ proc = "down"
               \/ SomeBlocked
               \/ strategy[p].start = "pending" /\ strategy[p].config = k

\* Call c is an update_portfolio that has not begun, for a pid whose loop runs.
UpdateCalled(c) ==
    /\ c <= Len(calls)
    /\ calls[c].op = "update"
    /\ calls[c].pc = "lock"
    /\ rec_of(calls[c].pid) # NoConfig
    /\ strategy[calls[c].pid].loop = "run"

\* C16: an update_portfolio call on a running pid comes to an end.
C16_UpdateReturns ==
    \A c \in 1..MaxOps : UpdateCalled(c) ~> (c > Len(calls) \/ calls[c].pc \in Finished)

\* Call c is a stop_portfolio of an issued pid that has returned.
StopReturned(c) ==
    /\ c <= Len(calls)
    /\ calls[c].op = "stop"
    /\ calls[c].pc = "done"
    /\ calls[c].pid \in Pids

\* A step of a stop_portfolio call.
StopStep ==
    /\ Len(calls') = Len(calls)
    /\ \E c \in 1..Len(calls) : calls[c].op = "stop" /\ calls'[c] # calls[c]

\* C17: once stop_portfolio(pid) has returned, pid has no record, its loop has
\* ended and no start() is pending for it; and no step of a stop_portfolio call
\* changes an order row, a pair row or the requests sent to the connector.
C17_StopQuiesces ==
    /\ [](\A c \in 1..MaxOps : StopReturned(c) =>
            /\ portfolios[calls[c].pid] = NoConfig
            /\ strategy[calls[c].pid].loop \in {"none", "ended"}
            /\ strategy[calls[c].pid].start # "pending")
    /\ [][StopStep => UNCHANGED <<db, sent, pairs_table>>]_vars

\* stop_portfolio has returned for a pid whose loop was running, after the
\* loop ended and the configuration was deactivated.
C17_StoppedRunning ==
    \E c \in 1..MaxOps :
        /\ StopReturned(c)
        /\ strategy[calls[c].pid].loop = "ended"
        /\ ~strategy[calls[c].pid].running
        /\ ~configs[calls[c].pid].active

\* C18: when start() completes, the records are those of the active rows, each
\* with its stored configuration and a started strategy; every pid that
\* add_portfolio has stored and no stop has stopped is among them, and no
\* stopped pid is.
C18_BootRestoresActive ==
    [][(proc = "booting" /\ proc' = "up") =>
        /\ \A p \in Pids : (portfolios'[p] # NoConfig) <=> configs[p].active
        /\ \A p \in Pids : configs[p].active =>
              portfolios'[p] = configs[p].config /\ strategy'[p].running
        /\ \A p \in Pids : (configs[p] # NoRow /\ p \notin stopped) =>
              portfolios'[p] = configs[p].config
        /\ \A p \in stopped : portfolios'[p] = NoConfig]_vars

\* A step in which the venue session's callback thread runs an order, trade or
\* transaction-reply callback of a connector.
CallbackStep == nCallbacks' = nCallbacks + 1

\* C19: an order, trade or transaction-reply callback is handed to the
\* OrderManager's ingestion method; it is neither put on the connector's bounded
\* event queue nor dropped, whatever the queue's fill level.
C19_CallbacksBypassQueue ==
    [][CallbackStep => cb'.out = "handed" /\ event_queue' = event_queue]_vars

\* C20: a step of the callback thread changes no correlation map, no cached
\* order key or class code, no order row and no pair row.
C20_CallbackThreadReadsOnly ==
    [][CallbackStep => UNCHANGED <<maps, db, pairs_table>>]_vars

\* The step in which update tasks[i] reads its order row.
TaskReads(i) ==
    /\ i \in 1..Len(tasks)
    /\ tasks[i].pc = "new"
    /\ Len(tasks') = Len(tasks)
    /\ tasks'[i].pc = "loaded"

\* C21: the update of an event does not read the order row while the update of
\* an event handed over before it for the same local id has read the row and
\* not yet committed; and the update of a trade event that commits leaves filled
\* at what the row held just before plus the event's quantity (no update of
\* another event is lost).
C21_UpdatesInArrivalOrder ==
    [][/\ \A i \in 1..Len(tasks) :
             TaskReads(i) =>
                 \A j \in 1..(i - 1) : tasks[j].o = tasks[i].o => tasks[j].pc # "loaded"
       /\ \A i \in 1..Len(tasks) :
             (FillDone(i) /\ ~trade_raises(tasks[i].qty, tasks[i].price))
             => db'[tasks[i].o].filled = db[tasks[i].o].filled + tasks[i].qty]_vars

\* The step in which cancel_order(o) is called, and a later step of that call.
CancelCalled(o) == call[o].op = "none" /\ call'[o].op = "cancel"

CancelGoesOn(o) == call[o].op = "cancel" /\ call'[o] # call[o]

C23_CancelMintsNewTransId ==
    \A i \in 1..Len(sent) :
        sent[i].action = "KILL_ORDER" =>
            /\ sent[i].trans # NULL
            /\ sent[i].mapped = sent[i].local
            /\ \A j \in 1..(i - 1) : sent[j].trans # sent[i].trans

\* The step in which a placement whose reply carried an order number has
\* stored it (_update_order_quik_num has committed).
PlaceStored(o) == call[o].pc = "p_commit" /\ call'[o].pc # "p_commit"

\* C24: whenever local id L maps to venue order id v, v maps back to L; and when
\* a placement whose immediate reply carried v has stored it, L maps to v, v maps
\* to L and the order row holds v.
C24_MapsAgree ==
    /\ [](\A o \in LocalIds :
             orm_to_quik[o] # NULL => quik_to_orm[orm_to_quik[o]] = o)
    /\ [][\A o \in LocalIds : PlaceStored(o) =>
             /\ orm_to_quik'[o] = call[o].v
             /\ quik_to_orm'[call[o].v] = o
             /\ db'[o].quik_num = call[o].v]_vars

\* C25: the update of an order event leaves the row's status at the event's
\* status, or as it was when the event carries none; and when the event carries
\* filled it leaves filled at that value and leaves_qty at max(qty - filled, 0).
C25_OrderEventApplied ==
    [][\A i \in 1..Len(tasks) :
          (TaskDone(i) /\ tasks[i].kind \in {"status", "backend_status"}) =>
          LET t == tasks[i]
              o == tasks[i].o
          IN  /\ db'[o].status = (IF t.status # "NONE" THEN t.status ELSE db[o].status)
              /\ t.filled # NULL =>
                    /\ db'[o].filled = t.filled
                    /\ db'[o].leaves_qty = Max(db'[o].qty - t.filled, 0)]_vars

\* C26: when the update of a trade event with a positive quantity finishes on an
\* order that was NEW, ACTIVE or PARTIAL, the order is FILLED if filled >= qty
\* and PARTIAL otherwise; and the update of a trade event leaves the status as
\* it was or at FILLED or PARTIAL.
C26_TradeSetsStatus ==
    [][\A i \in 1..Len(tasks) : FillDone(i) =>
          LET t == tasks[i]
              o == tasks[i].o
          IN  /\ (t.qty > 0 /\ db[o].status \in {"NEW", "ACTIVE", "PARTIAL"}) =>
                    db'[o].status =
                        (IF db'[o].filled >= db'[o].qty THEN "FILLED" ELSE "PARTIAL")
              /\ db'[o].status \in {db[o].status, "FILLED", "PARTIAL"}]_vars

\* A step that ingests a transaction reply.
ReplyIngested == nEvents' = nEvents + 1 /\ ev'.kind = "reply"

\* C27: when the update of a transaction reply finishes, the order is REJECTED
\* if the reply carried an error code or status REJECTED, CANCELLED if it
\* carried status CANCELLED and no error, and has the status it had otherwise;
\* neither the ingestion of a reply nor its update dispatches a request.
C27_ReplySetsStatus ==
    [][/\ \A i \in 1..Len(tasks) : (TaskDone(i) /\ tasks[i].kind = "reply") =>
             LET t == tasks[i]
                 o == tasks[i].o
             IN  /\ db'[o].status =
                        (IF t.err \/ t.status = "REJECTED" THEN "REJECTED"
                         ELSE IF t.status = "CANCELLED" THEN "CANCELLED"
                         ELSE db[o].status)
                 /\ sent' = sent
       /\ ReplyIngested => sent' = sent]_vars

\* modify_order of o is past an accepted MOVE_ORDERS reply.
AmendAccepted(o) == call[o].op = "modify" /\ call[o].move_ok

\* The step of modify_order that commits _update_order_price after an accepted amend.
AmendCommits(o) == AmendAccepted(o) /\ call[o].pc = "m_commit" /\ call'[o].pc = "done"

\* A step of the call of o: its position changes.
CallStep(o) == call'[o] # call[o]

\* C28: a modify_order whose MOVE_ORDERS reply is accepted commits the new price
\* and the qty (the given one, otherwise the one it read) and nothing else of the
\* row; no step of the call changes the venue-id maps or the status in any other
\* way, and the call dispatches the MOVE_ORDERS request and no other.
C28_AmendInPlace ==
    /\ [](\A o \in LocalIds : AmendAccepted(o) =>
              /\ Len(SentBy(o)) = 1
              /\ SentBy(o)[1].action = "MOVE_ORDERS")
    /\ [][\A o \in LocalIds :
              /\ AmendCommits(o) =>
                    db'[o] = [db[o] EXCEPT !.price = call[o].nprice, !.qty = call[o].nqty]
              /\ (CallStep(o) /\ (AmendAccepted(o) \/ AmendAccepted(o)')) =>
                    /\ quik_to_orm' = quik_to_orm
                    /\ orm_to_quik' = orm_to_quik
                    /\ db'[o].status = db[o].status]_vars

\* An accepted amend has committed a price and a qty that both differ from the
\* row's, while the order was bound to a venue id.
C28_AmendCommitted ==
    \E o \in LocalIds :
        /\ AmendAccepted(o) /\ call[o].pc = "done"
        /\ db[o].price = call[o].nprice /\ db[o].qty = call[o].nqty
        /\ call[o].snap.price # call[o].nprice /\ call[o].snap.qty # call[o].nqty
        /\ orm_to_quik[o] # NULL

\* The actions of the requests the running call of o has dispatched, in order.
ActionsBy(o) == [i \in 1..Len(SentBy(o)) |-> SentBy(o)[i].action]

\* modify_order of o has received a MOVE_ORDERS reply that is not an acceptance.
AmendRejected(o) ==
    /\ call[o].op = "modify" /\ call[o].pc # "m_wait" /\ ~call[o].move_ok
    /\ ActionsBy(o) # <<>> /\ ActionsBy(o)[1] = "MOVE_ORDERS"

\* C29: after a MOVE_ORDERS reply that is not an acceptance the same call sends
\* one KILL_ORDER and then one NEW_ORDER, both for the same local id, and has
\* sent both by the time it returns; after an accepted reply it sends no
\* NEW_ORDER and no KILL_ORDER.
C29_RejectedAmendReplaces ==
    \A o \in LocalIds :
        /\ AmendRejected(o) =>
              /\ \A i \in 1..Len(SentBy(o)) : SentBy(o)[i].local = o
              /\ IF call[o].pc \in {"c_wait", "c_commit", "m_sleep"}
                 THEN ActionsBy(o) = <<"MOVE_ORDERS", "KILL_ORDER">>
                 ELSE ActionsBy(o) = <<"MOVE_ORDERS", "KILL_ORDER", "NEW_ORDER">>
        /\ AmendAccepted(o) =>
              \A i \in 1..Len(SentBy(o)) : SentBy(o)[i].action \notin {"KILL_ORDER", "NEW_ORDER"}

\* A modify_order whose amend was rejected has returned after its cancel and
\* its re-placement.
C29_FallbackDone ==
    \E o \in LocalIds :
        /\ AmendRejected(o) /\ call[o].pc = "done"
        /\ ActionsBy(o) = <<"MOVE_ORDERS", "KILL_ORDER", "NEW_ORDER">>

\* C30: every unit handed to _schedule is taken by the branch of its context (a
\* task of the current loop on the loop; the saved loop from the callback thread;
\* otherwise a temporary loop, on which it has run once when _schedule returns),
\* no unit runs twice and none is dropped.
C30_EveryUnitRunsOnce ==
    \A i \in 1..Len(units) :
        /\ units[i].runs <= 1
        /\ units[i].state # "dropped"
        /\ units[i].state = "done" <=> units[i].runs = 1
        /\ units[i].ctx = "loop" => units[i].via = "task"
        /\ units[i].ctx = "thread" => units[i].via \in {"threadsafe", "temp"}
        /\ units[i].via = "temp" => units[i].state = "done"

\* Every trade-event update scheduled for the pair has finished.
PairTradesDone ==
    pair_tasks # <<>> /\ \A k \in 1..Len(pair_tasks) : pair_tasks[k].pc = "done"

\* C31: once every scheduled trade-event update of a pair has finished, the
\* pair's exec_price and exec_qty are the spread P&L and the leg-1 volume of the
\* pair's orders as they are stored now (each with a fill and a price),
\* whether the updates of the two legs ran one after the other or interleaved.
C31_PairFollowsFills ==
    (PairTradesDone /\ PairFilled /\ pair_reset = <<>>) =>
        LET n == Len(pair_orders)
            row == pairs_table
        IN  /\ row.exec_qty = LegQty(pair_orders, row.asset_1, n)
            /\ row.exec_price =
                  Ratio(LegCost(pair_orders, row.asset_1, n) * row.price_ratio_1 * row.qty_ratio_2
                          - LegCost(pair_orders, row.asset_2, n) * row.price_ratio_2 * row.qty_ratio_1,
                        row.qty_ratio_1 * row.qty_ratio_2)

\* A poll tick that found a position open.
PositionTick == position_open /\ nTicks' = nTicks + 1

\* C32: a poll tick in position closes the position and clears the side exactly
\* when the side is 1 (long the spread) and spread_bid >= -exit_level, or the
\* side is -1 (short the spread) and spread_ask <= exit_level; otherwise
\* position and side stay, and the tick enters at no level.
C32_ExitOnReversion ==
    [][PositionTick =>
        LET exit == \/ entry_side = 1 /\ spreads'.bid >= 0 - cfg.exit_level
                    \/ entry_side = -1 /\ spreads'.ask <= cfg.exit_level
        IN  /\ spreads'.level = NoLevel
            /\ IF exit THEN ~position_open' /\ entry_side' = NoSide
               ELSE position_open' /\ entry_side' = entry_side]_vars

\* Entry level 1 and a second tick with spread_bid 2, which a flat tick would
\* have entered on: the position opened by the first tick has been closed.
C32_ExitedOnSecondTick ==
    /\ cfg.entry_levels = <<1>>
    /\ nTicks = 2
    /\ spreads.bid = 2
    /\ ~position_open
    /\ entry_side = NoSide

\* A connector method has just failed to send a transaction.
SendFailed == send' # send

\* C33: when sending a transaction fails, the connector's method returns the
\* error envelope (result -1) instead of raising, and an error event reaches the
\* event ingestion of the OrderManager, as order, trade and transaction-reply
\* events do.
C33_SendFailureSurfaces ==
    [][SendFailed => /\ send'.result = -1
                     /\ nEvents' = nEvents + 1
                     /\ ev'.kind = "error"]_vars

\* C34: the transaction ids that placements obtain from get_next_trans_id
\* increase strictly in the order the placements obtained them, so that no two
\* placements share one and none is registered to two local ids.
C34_TransIdsIncrease ==
    \A i, j \in 1..Len(sent) :
        i < j => /\ sent[i].trans < sent[j].trans
                 /\ trans_to_orm[sent[i].trans] = sent[i].local

\* modify_order of o has returned after cancel + new, the venue id of the
\* replacement is bound to o, and no update is pending.
Replaced(o) ==
    /\ call[o].op = "modify" /\ call[o].pc = "done"
    /\ ActionsBy(o) # <<>> /\ ActionsBy(o)[Len(ActionsBy(o))] = "NEW_ORDER"
    /\ orm_to_quik[o] = call[o].v
    /\ tasks = <<>>

\* C35: an order that was not terminal when modify_order was called, and whose
\* modify_order has gone through cancel + new with the replacement accepted, is
\* not terminal once every pending update has been applied.
C35_ReplacedOrderLive ==
    \A o \in LocalIds :
        (Replaced(o) /\ call[o].seen \notin Terminal) => db[o].status \notin Terminal

\* Transaction id t was sent with a cancel or an amend and with no placement.
CancelOrAmendTrans(t) ==
    /\ t # NULL
    /\ \E i \in 1..Len(sent) : sent[i].trans = t /\ sent[i].action \in {"KILL_ORDER", "MOVE_ORDERS"}
    /\ \A i \in 1..Len(sent) : sent[i].trans = t => sent[i].action # "NEW_ORDER"

\* C36: the update of a transaction reply that carries an error code and the
\* transaction id of a cancel or an amend does not move the order to REJECTED.
C36_RefusedCancelKeepsStatus ==
    [][\A i \in 1..Len(tasks) :
          (/\ TaskDone(i) /\ tasks[i].kind = "reply" /\ tasks[i].err
           /\ CancelOrAmendTrans(tasks[i].ids[2])
           /\ db[tasks[i].o].status # "REJECTED")
          => db'[tasks[i].o].status # "REJECTED"]_vars

\* The order event and the trade event of the one fill have both been applied.
FillReportedTwice == nEvents = 2 /\ tasks = <<>>

\* C37: when one fill is reported as an order event with the cumulative filled
\* value and as a trade event with the fill's quantity, the order ends with
\* filled equal to the fill's quantity, whichever event came first, and so with
\* no more than the requested quantity.
C37_OneFillCountedOnce ==
    FillReportedTwice => db[1].filled = MaxQty /\ db[1].filled <= db[1].qty

\* Quantity and cost of the fills of asset a that arrived after the reset,
\* over the first k trade events.
RECURSIVE FreshQty(_, _)
FreshQty(a, k) ==
    IF k = 0 THEN 0
    ELSE FreshQty(a, k - 1)
         + (IF pair_tasks[k].after /\ pair_orders[pair_tasks[k].i].alias = a
            THEN pair_tasks[k].qty ELSE 0)

RECURSIVE FreshCost(_, _)
FreshCost(a, k) ==
    IF k = 0 THEN 0
    ELSE FreshCost(a, k - 1)
         + (IF pair_tasks[k].after /\ pair_orders[pair_tasks[k].i].alias = a
            THEN pair_tasks[k].qty * pair_tasks[k].price ELSE 0)

\* The pair was reset, a priced fill of a leg-1 order arrived after it, and the
\* update of every trade event has finished.
FilledAfterReset ==
    /\ pair_reset # <<>>
    /\ PairTradesDone
    /\ \E k \in 1..Len(pair_tasks) :
          /\ pair_tasks[k].after
          /\ pair_tasks[k].price > 0
          /\ pair_orders[pair_tasks[k].i].alias = pairs_table.asset_1

\* C38: after a reset of the pair and a new fill of one of its orders, the
\* pair's exec_qty is the leg-1 volume and its exec_price the spread P&L of the
\* fills that arrived after the reset alone.
C38_ResetForgetsOldFills ==
    FilledAfterReset =>
        LET n == Len(pair_tasks)
            row == pairs_table
        IN  /\ row.exec_qty = FreshQty(row.asset_1, n)
            /\ row.exec_price =
                  Ratio(FreshCost(row.asset_1, n) * row.price_ratio_1 * row.qty_ratio_2
                          - FreshCost(row.asset_2, n) * row.price_ratio_2 * row.qty_ratio_1,
                        row.qty_ratio_1 * row.qty_ratio_2)

\* C39: the status of every order agrees with its fills: NEW or ACTIVE with
\* filled = 0, PARTIAL with 0 < filled < qty, FILLED with filled >= qty.
C39_StatusMatchesFills ==
    \A o \in LocalIds :
        db[o].exists =>
            /\ db[o].status \in {"NEW", "ACTIVE"} => db[o].filled = 0
            /\ db[o].status = "PARTIAL" => 0 < db[o].filled /\ db[o].filled < db[o].qty
            /\ db[o].status = "FILLED" => db[o].filled >= db[o].qty

\* C40: list_portfolios reports running = true for no pid whose loop has
\* terminated, by stop or by an exception: such a pid is absent from the list
\* or reported with running = false.
C40_RunningMeansLoopAlive ==
    [][\A c \in 1..Len(calls) :
          ListRun(c) =>
              \A pid \in DOMAIN list_portfolios :
                  strategy[pid].loop \in {"raised", "ended"} => ~list_portfolios[pid]]_vars

====
